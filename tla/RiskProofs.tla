----------------------------- MODULE RiskProofs -----------------------------
(***************************************************************************)
(* Hard halts, losses and the size of what may be opened, for every limit, *)
(* calendar, sequence of prices and trades, any number of crashes and      *)
(* failing writes.                                                         *)
(***************************************************************************)
EXTENDS Risk, TLAPS

(* As long as a fair price exists (finding HaltEarned is about when not).  *)
FairThroughout == "none" \notin FairStates

(* The manager's memory is the truth, and so is the file, unless a write   *)
(* has failed.                                                             *)
Agrees ==
    /\ mem.day = seen.day /\ mem.dayStart = seen.dayStart
    /\ mem.week = seen.week /\ mem.weekStart = seen.weekStart
    /\ mem.high = seen.high
    /\ mem.losses = losses
    /\ mem.halt <=> earned

RiskInv ==
    /\ price \in Int /\ cash \in Int /\ held \in Int
    /\ cash + held * price > 0
    /\ failures \in Nat
    /\ seen.dayStart \in Int /\ seen.weekStart \in Int /\ seen.high \in Int
    /\ earned \in BOOLEAN /\ forgot \in BOOLEAN
    /\ failures = 0 => disk = mem
    /\ ~forgot => Agrees

-----------------------------------------------------------------------------
(* With a fair price, what the manager is handed is the account's equity.  *)
LEMMA EquityIsTrue ==
    ASSUME RiskInv, FairThroughout, NEW f \in FairStates
    PROVE  Observed(f) = cash + held * price /\ TrueEquity = cash + held * price
<1>1. f # "none"
  BY DEF FairThroughout
<1>2. FairPrice(f) = price /\ FairPrice("valid") = price
  BY <1>1 DEF FairPrice
<1>3. EquityUSD(f) = cash + held * price /\ EquityUSD("valid") = cash + held * price
  BY <1>2 DEF EquityUSD
<1> QED BY <1>3 DEF Observed, TrueEquity, RiskInv

(* A write that is called for succeeds or is counted as a failure.         *)
LEMMA SaveFacts ==
    ASSUME RiskInv, NEW m, Save(m)
    PROVE  failures' \in Nat /\ (failures' = 0 => disk' = m) /\ failures' >= failures
BY DEF Save, RiskInv

(* A process that starts without a file agrees with a world that has seen  *)
(* nothing.                                                                *)
LEMMA RiskInit == Init => RiskInv
<1> SUFFICES ASSUME Init PROVE RiskInv
  OBVIOUS
<1>1. price \in Int /\ cash = CapitalBase /\ held = 0 /\ CapitalBase \in Nat \ {0}
  BY RiskAssumption, SizingAssumption DEF Init
<1>2. cash + held * price > 0
  BY <1>1
<1>3. Agrees
  BY DEF Init, Agrees, NoState
<1>4. seen.dayStart \in Int /\ seen.weekStart \in Int /\ seen.high \in Int
      /\ failures \in Nat /\ disk = mem
  BY DEF Init
<1>5. earned \in BOOLEAN /\ forgot \in BOOLEAN
  BY DEF Init
<1> QED BY <1>1, <1>2, <1>3, <1>4, <1>5 DEF RiskInv

(* A tick with a fair price anchors and latches what truly happened.       *)
LEMMA TickKeeps ==
    ASSUME RiskInv, FairThroughout, Tick
    PROVE  RiskInv'
<1>1. PICK f \in FairStates :
         /\ mem' = ObserveEquity(mem, Observed(f))
         /\ IF ObserveEquity(mem, Observed(f)) # mem
            THEN Save(ObserveEquity(mem, Observed(f))) ELSE UNCHANGED <<disk, failures>>
         /\ seen' = [day |-> day, week |-> Week(day),
                     dayStart |-> FirstSeen(seen.day = day, seen.dayStart),
                     weekStart |-> FirstSeen(seen.week = Week(day), seen.weekStart),
                     high |-> Greater(seen.high, TrueEquity), losses |-> losses]
         /\ earned' = (earned \/ LimitReached(seen', TrueEquity))
         /\ UNCHANGED <<world, moves, crashes, losses, forgot>>
  BY DEF Tick
<1> DEFINE e == cash + held * price
           m == ObserveEquity(mem, e)
<1>2. Observed(f) = e /\ TrueEquity = e
  BY EquityIsTrue
<1>3. e \in Int /\ e > 0
  BY DEF RiskInv
<1>4. mem' = m
  BY <1>1, <1>2
<1>5. failures' \in Nat /\ (failures' = 0 => disk' = m)
  <2>1. CASE m # mem
    BY <1>1, <1>2, <2>1, SaveFacts
  <2>2. CASE m = mem
    BY <1>1, <1>2, <2>2 DEF RiskInv
  <2> QED BY <2>1, <2>2
<1>6. /\ seen'.day = day /\ seen'.week = Week(day)
      /\ seen'.dayStart = IF seen.day = day /\ seen.dayStart > 0 THEN seen.dayStart ELSE e
      /\ seen'.weekStart = IF seen.week = Week(day) /\ seen.weekStart > 0
                           THEN seen.weekStart ELSE e
      /\ seen'.high = Greater(seen.high, e)
      /\ seen'.losses = losses
  BY <1>1, <1>2 DEF FirstSeen
<1>7. seen'.dayStart \in Int /\ seen'.weekStart \in Int /\ seen'.high \in Int
  BY <1>6, <1>3 DEF RiskInv, Greater
<1>8. /\ m.day = day /\ m.week = Week(day)
      /\ m.dayStart = IF mem.day # day \/ mem.dayStart <= 0 THEN e ELSE mem.dayStart
      /\ m.weekStart = IF mem.week # Week(day) \/ mem.weekStart <= 0 THEN e ELSE mem.weekStart
      /\ m.high = Greater(mem.high, e)
      /\ m.losses = mem.losses
      /\ m.halt = (mem.halt \/ LimitReached(Anchored(mem, e), e))
  BY DEF ObserveEquity, Anchored, Latched
<1>9. ASSUME Agrees
      PROVE  Agrees'
  <2>1. /\ m.day = seen'.day /\ m.week = seen'.week /\ m.losses = losses
        /\ m.dayStart = seen'.dayStart /\ m.weekStart = seen'.weekStart /\ m.high = seen'.high
    BY <1>3, <1>6, <1>8, <1>9 DEF Agrees, RiskInv
  <2>2. /\ Anchored(mem, e).dayStart = m.dayStart /\ Anchored(mem, e).weekStart = m.weekStart
        /\ Anchored(mem, e).high = m.high /\ Anchored(mem, e).losses = m.losses
    BY <1>8 DEF Anchored
  <2> HIDE DEF m, e
  <2>3. LimitReached(Anchored(mem, e), e) <=> LimitReached(seen', e)
    BY <2>1, <2>2, <1>6, Zenon DEF LimitReached
  <2>4. m.halt <=> earned'
    BY <2>3, <1>1, <1>2, <1>8, <1>9 DEF Agrees
  <2> QED BY <2>1, <2>4, <1>1, <1>4 DEF Agrees
<1> QED BY <1>1, <1>3, <1>4, <1>5, <1>7, <1>9 DEF RiskInv, world

(* A closed trade is counted in memory as it happened.                     *)
LEMMA TradeKeeps ==
    ASSUME RiskInv, TradeCloses
    PROVE  RiskInv'
<1>1. PICK pnl \in {-1, 1} :
         /\ mem' = Latched(mem, Counted(mem.losses, pnl), TooManyLosses(Counted(mem.losses, pnl)))
         /\ Save(mem')
         /\ losses' = Counted(losses, pnl)
         /\ earned' = (earned \/ TooManyLosses(losses'))
         /\ UNCHANGED <<world, seen, forgot>>
  BY DEF TradeCloses
<1>2. failures' \in Nat /\ (failures' = 0 => disk' = mem')
  BY <1>1, SaveFacts
<1>3. ASSUME Agrees
      PROVE  Agrees'
  <2>1. mem'.halt <=> earned'
    BY <1>1, <1>3 DEF Agrees, Latched
  <2> QED BY <2>1, <1>1, <1>3 DEF Agrees, Latched
<1> QED BY <1>1, <1>2, <1>3 DEF RiskInv, world

(* Trading at the price changes what equity consists of, not equity.       *)
LEMMA MarketKeeps ==
    ASSUME RiskInv, Trades \/ PriceMoves \/ DayEnds
    PROVE  RiskInv'
<1>1. CASE Trades
  <2>1. PICK h \in Lesser(held, target) .. Greater(held, target) :
           held' = h /\ cash' = cash - (h - held) * price
    BY <1>1 DEF Trades
  <2>2. h \in Int
    BY <2>1
  <2>3. cash' + held' * price = cash + held * price /\ cash' \in Int
    BY <2>1, <2>2 DEF RiskInv
  <2> QED BY <1>1, <2>1, <2>2, <2>3 DEF Trades, RiskInv, Agrees, history
<1>2. CASE PriceMoves
  <2>1. price' \in Int /\ cash + held * price' > 0
    <3>1. price' \in Prices /\ cash + held * price' > 0
      BY <1>2, Zenon DEF PriceMoves, Solvent
    <3>2. Prices \subseteq Nat \ {0}
      BY RiskAssumption, Zenon
    <3> QED BY <3>1, <3>2
  <2> QED BY <1>2, <2>1 DEF PriceMoves, RiskInv, Agrees, history
<1>3. CASE DayEnds
  BY <1>3 DEF DayEnds, RiskInv, Agrees, history
<1> QED BY <1>1, <1>2, <1>3

(* A restart loads the truth, or forgets, and then a write has failed.     *)
LEMMA RestartKeeps ==
    ASSUME RiskInv, Restart
    PROVE  RiskInv'
<1>1. /\ mem' = disk /\ disk' = disk /\ failures' = failures
      /\ forgot' = IF failures > 0 /\ mem # disk THEN TRUE ELSE forgot
      /\ UNCHANGED <<price, cash, held, seen, losses, earned>>
  BY DEF Restart, world
<1>2. ASSUME ~forgot' PROVE Agrees'
  <2>1. ~forgot /\ mem = disk
    BY <1>1, <1>2 DEF RiskInv
  <2> QED BY <1>1, <2>1 DEF RiskInv, Agrees
<1>3. forgot' \in BOOLEAN
  BY <1>1 DEF RiskInv
<1> QED BY <1>1, <1>2, <1>3 DEF RiskInv

(* The invariant of the manager.                                           *)
THEOREM RiskInvariance == ASSUME FairThroughout PROVE Spec => []RiskInv
<1>1. RiskInv /\ [Next]_vars => RiskInv'
  <2> SUFFICES ASSUME RiskInv, [Next]_vars PROVE RiskInv'
    OBVIOUS
  <2>1. CASE UNCHANGED vars
    BY <2>1 DEF vars, world, history, RiskInv, Agrees
  <2> QED BY <2>1, TickKeeps, TradeKeeps, MarketKeeps, RestartKeeps DEF Next
<1> QED BY <1>1, RiskInit, PTL DEF Spec

(* Every limit the account reaches at a tick halts trading for good, for   *)
(* all limits and any number of restarts, unless a crash follows a write   *)
(* that failed.                                                            *)
THEOREM LossesHalt == ASSUME FairThroughout PROVE Spec => []LossHalts
<1>1. RiskInv => LossHalts
  BY DEF RiskInv, Agrees, LossHalts
<1> QED BY <1>1, RiskInvariance, PTL

(* No hard halt is latched without a loss that reached a limit, as long as *)
(* the estimate has a fair price.                                          *)
THEOREM HaltsAreEarned == ASSUME FairThroughout PROVE Spec => []HaltEarned
<1>1. RiskInv => HaltEarned
  BY DEF RiskInv, Agrees, HaltEarned
<1> QED BY <1>1, RiskInvariance, PTL
-----------------------------------------------------------------------------
(* What a signal can ask of the manager.                                   *)
RequestType ==
    [equity : Int, dayLoss : Nat, exposure : Int, price : Nat \ {0}, gap : Nat \ {0},
     depth : Nat, net : Int, pending : Int, entry : Nat \ {0}]

(* Products and quotients of natural numbers.                              *)
LEMMA Quotient ==
    ASSUME NEW a \in Nat, NEW b \in Nat \ {0}
    PROVE  a \div b \in Nat /\ b * (a \div b) <= a
OBVIOUS

LEMMA ProductType == \A a, b \in Nat : a * b \in Nat
OBVIOUS

LEMMA ProductMono ==
    ASSUME NEW a \in Nat, NEW b \in Nat, NEW c \in Nat, a <= b
    PROVE  a * c <= b * c /\ c * a <= c * b
OBVIOUS

LEMMA ProductCancel ==
    ASSUME NEW a \in Int, NEW b \in Int, NEW c \in Nat \ {0}, a * c <= b * c
    PROVE  a <= b
OBVIOUS

LEMMA PercentFacts ==
    ASSUME NEW p \in Nat, NEW v \in Nat
    PROVE  /\ Percent(p, v) \in Nat
           /\ 100 * Percent(p, v) <= p * v
<1>1. p * v \in Nat
  BY ProductType
<1> DEFINE a == p * v
<1> HIDE DEF a
<1>2. a \div 100 \in Nat /\ 100 * (a \div 100) <= a
  BY <1>1, Quotient DEF a
<1> QED
  BY <1>2 DEF Percent, a

(* Scaling an order to a limit: it only shrinks, and in the proportion in  *)
(* which its loss exceeds the limit.                                       *)
LEMMA ScaledFacts ==
    ASSUME NEW n \in Nat, NEW loss \in Nat, NEW limit \in Nat
    PROVE  /\ Scaled(n, loss, limit) \in Nat
           /\ Scaled(n, loss, limit) <= n
           /\ loss > limit => Scaled(n, loss, limit) * loss <= n * limit
           /\ ~(loss > limit) => Scaled(n, loss, limit) = n
<1>1. CASE ~(loss > limit)
  BY <1>1 DEF Scaled
<1>2. CASE loss > limit
  <2> DEFINE a == n * limit
             q == a \div loss
  <2>1. a \in Nat
    BY ProductType
  <2> HIDE DEF a
  <2>2. q \in Nat /\ loss * q <= a
    BY <1>2, <2>1, Quotient
  <2> HIDE DEF q
  <2>3. q * loss <= a
    BY <2>2
  <2>4. a <= n * loss
    BY <1>2, ProductMono DEF a
  <2>5. q <= n
    <3>1. q * loss <= n * loss
      BY <2>2, <2>3, <2>4, <2>1, ProductType
    <3> QED
      BY <1>2, <2>2, <3>1, ProductCancel
  <2>6. Scaled(n, loss, limit) = q
    BY <1>2 DEF Scaled, q, a
  <2> QED
    BY <1>2, <2>2, <2>3, <2>5, <2>6 DEF a
<1> QED
  BY <1>1, <1>2

LEMMA SizingTypes ==
    ASSUME NEW r \in RequestType, EffectiveEquity(r) > 0
    PROVE  /\ EffectiveEquity(r) \in Nat
           /\ Throttle(r) \in Nat
           /\ DesiredExposure(r) \in Int
           /\ RiskBudget(r) \in Nat /\ OpenRiskCap(r) \in Nat /\ AbsoluteCap(r) \in Nat
           /\ 10000 * RiskBudget(r) <= RiskPerTradeFraction * Throttle(r) * EffectiveEquity(r)
<1> DEFINE e == EffectiveEquity(r)
           t == Throttle(r)
           p == RiskPerTradeFraction
<1>1. e \in Nat
  BY SizingAssumption DEF EffectiveEquity, Lesser, RequestType
<1>2. t \in Nat /\ p \in Nat /\ MaximumOpenRiskFraction \in Nat /\ AbsoluteGrossExposure \in Nat
  BY SizingAssumption DEF Throttle, RequestType
<1>3. DesiredExposure(r) \in Int
  <2> DEFINE x == Lesser(Abs(r.exposure), AbsoluteGrossExposure)
  <2>1. x \in Nat
    BY <1>2 DEF Lesser, Abs, RequestType
  <2>2. Percent(t, x) \in Nat
    BY <1>2, <2>1, PercentFacts
  <2>3. Sign(r.exposure) \in {-1, 0, 1}
    BY DEF Sign
  <2> HIDE DEF x, t
  <2> QED
    BY <2>2, <2>3 DEF DesiredExposure, x, t
<1>4. OpenRiskCap(r) \in Nat /\ AbsoluteCap(r) \in Nat
  BY <1>1, <1>2, PercentFacts DEF OpenRiskCap, AbsoluteCap
<1> DEFINE u == Percent(t, e)
           b == Percent(p, u)
<1>5. u \in Nat /\ 100 * u <= t * e
  BY <1>1, <1>2, PercentFacts
<1> HIDE DEF u, t, e, p
<1>6. b \in Nat /\ 100 * b <= p * u
  BY <1>2, <1>5, PercentFacts
<1> HIDE DEF b
<1>7. 10000 * b <= p * t * e
  <2>1. p * (100 * u) <= p * (t * e)
    BY <1>1, <1>2, <1>5, ProductMono, ProductType
  <2>2. p * (100 * u) = 100 * (p * u) /\ p * (t * e) = p * t * e
    BY <1>1, <1>2, <1>5
  <2>3. 100 * (100 * b) <= 100 * (p * u)
    BY <1>2, <1>5, <1>6, ProductType
  <2> QED
    BY <1>1, <1>2, <1>5, <1>6, <2>1, <2>2, <2>3, ProductType
<1> QED
  BY <1>1, <1>2, <1>3, <1>4, <1>6, <1>7 DEF RiskBudget, u, t, e, p, b

(* What a target of x loses at its stop when old of it is held already and *)
(* has lost nothing against its entry: never more, in proportion to its    *)
(* size, than a larger target loses.                                       *)
LossOf(x, old, kept, gap) == Greater(0, Lesser(x, old) * kept + Greater(0, x - old) * gap)

LEMMA LossType ==
    ASSUME NEW x \in Nat, NEW old \in Nat, NEW kept \in Int, NEW gap \in Nat \ {0}
    PROVE  /\ LossOf(x, old, kept, gap) \in Nat
           /\ old <= x => LossOf(x, old, kept, gap) = Greater(0, x * gap - old * (gap - kept))
<1>1. Lesser(x, old) \in Int /\ Greater(0, x - old) \in Int
  BY DEF Lesser, Greater
<1>2. Lesser(x, old) * kept \in Int /\ Greater(0, x - old) * gap \in Int
  BY <1>1
<1>3. LossOf(x, old, kept, gap) \in Nat
  <2> DEFINE a == Lesser(x, old) * kept
             b == Greater(0, x - old) * gap
  <2>1. a \in Int /\ b \in Int
    BY <1>2
  <2> HIDE DEF a, b
  <2>2. Greater(0, a + b) \in Nat
    BY <2>1 DEF Greater
  <2> QED
    BY <2>2 DEF LossOf, a, b
<1>4. ASSUME old <= x PROVE LossOf(x, old, kept, gap) = Greater(0, x * gap - old * (gap - kept))
  <2>1. Lesser(x, old) = old /\ Greater(0, x - old) = x - old
    BY <1>4 DEF Lesser, Greater
  <2>2. old * kept + (x - old) * gap = x * gap - old * (gap - kept)
    OBVIOUS
  <2> QED
    BY <2>1, <2>2 DEF LossOf
<1> QED
  BY <1>3, <1>4

LEMMA LossGrows ==
    ASSUME NEW x \in Nat, NEW n \in Nat, NEW old \in Nat, NEW kept \in Int, NEW gap \in Nat \ {0},
           kept <= gap, old <= x, x <= n
    PROVE  LossOf(x, old, kept, gap) * n <= x * LossOf(n, old, kept, gap)
<1> DEFINE k == old * (gap - kept)
           s == LossOf(x, old, kept, gap)
           l == LossOf(n, old, kept, gap)
<1>1. k \in Nat
  <2>1. gap - kept \in Nat
    OBVIOUS
  <2> QED
    BY <2>1, ProductType
<1>2. s \in Nat /\ l \in Nat
  BY LossType
<1>3. s = Greater(0, x * gap - k)
  BY LossType
<1>4. l = Greater(0, n * gap - k)
  <2>1. old <= n
    OBVIOUS
  <2> QED
    BY <2>1, LossType
<1> HIDE DEF k, s, l
<1>5. x * gap \in Nat /\ n * gap \in Nat /\ k * n \in Nat /\ k * x \in Nat /\ x * l \in Nat
  BY <1>1, <1>2, ProductType
<1>6. CASE s = 0
  <2>1. 0 * n = 0
    OBVIOUS
  <2>2. 0 <= x * l
    BY <1>5
  <2> QED
    BY <1>6, <2>1, <2>2 DEF s, l
<1>7. CASE s # 0
  <2>1. s = x * gap - k
    BY <1>1, <1>3, <1>5, <1>7 DEF Greater
  <2>2. l >= n * gap - k
    BY <1>1, <1>4, <1>5 DEF Greater
  <2>3. s * n = x * gap * n - k * n
    BY <1>1, <2>1
  <2>4. x * (n * gap - k) = x * gap * n - k * x
    BY <1>1
  <2>5. k * x <= k * n
    BY <1>1, ProductMono
  <2>6. x * (n * gap - k) <= x * l
    <3> DEFINE y == n * gap - k
    <3>1. y \in Int /\ y <= l
      BY <1>1, <1>2, <1>5, <2>2
    <3> HIDE DEF y
    <3>2. x * y <= x * l
      BY <3>1, <1>2
    <3> QED
      BY <3>2 DEF y
  <2>7. x * gap * n \in Nat
    BY <1>5, ProductType
  <2>8. s * n \in Nat
    BY <1>2, ProductType
  <2> DEFINE sn == s * n
             xl == x * l
             xgn == x * gap * n
             kn == k * n
             kx == k * x
             xd == x * (n * gap - k)
  <2>9. /\ sn = xgn - kn /\ xd = xgn - kx /\ kx <= kn /\ xd <= xl
        /\ sn \in Nat /\ xl \in Nat /\ xgn \in Nat /\ kn \in Nat /\ kx \in Nat
    BY <1>5, <2>3, <2>4, <2>5, <2>6, <2>7, <2>8
  <2> HIDE DEF sn, xl, xgn, kn, kx, xd
  <2>10. sn <= xl
    BY <2>9
  <2> QED
    BY <2>10 DEF sn, xl, s, l
<1> QED
  BY <1>6, <1>7

(* A target scaled to a limit loses no more than the limit.                *)
LEMMA ScaledLoss ==
    ASSUME NEW n \in Nat, NEW old \in Nat, NEW kept \in Int, NEW gap \in Nat \ {0}, kept <= gap,
           NEW loss \in Nat, NEW limit \in Nat, LossOf(n, old, kept, gap) <= loss,
           old <= Scaled(n, loss, limit)
    PROVE  LossOf(Scaled(n, loss, limit), old, kept, gap) <= Lesser(loss, limit)
<1> DEFINE x == Scaled(n, loss, limit)
           s == LossOf(x, old, kept, gap)
           l == LossOf(n, old, kept, gap)
<1>1. /\ x \in Nat /\ x <= n
      /\ loss > limit => x * loss <= n * limit
      /\ ~(loss > limit) => x = n
  BY ScaledFacts
<1> HIDE DEF x
<1>2. s \in Nat /\ l \in Nat /\ l <= loss
  BY <1>1, LossType
<1>3. s * n <= x * l
  BY <1>1, LossGrows DEF x
<1> HIDE DEF s, l
<1>4. CASE ~(loss > limit)
  BY <1>1, <1>2, <1>4 DEF Lesser, s, l, x
<1>5. CASE loss > limit
  <2>1. x * l <= x * loss
    BY <1>1, <1>2, ProductMono
  <2>2. s * n <= limit * n
    <3>1. s * n \in Nat /\ x * l \in Nat /\ x * loss \in Nat /\ n * limit \in Nat
      BY <1>1, <1>2, ProductType
    <3>2. n * limit = limit * n
      OBVIOUS
    <3> QED
      BY <1>1, <1>3, <1>5, <2>1, <3>1, <3>2
  <2>3. CASE n = 0
    <3>1. x = 0 /\ old = 0
      BY <1>1, <2>3 DEF x
    <3>2. 0 * kept + 0 * gap = 0
      OBVIOUS
    <3>3. s = 0
      BY <3>1, <3>2 DEF s, LossOf, Lesser, Greater
    <3> QED
      BY <1>5, <3>3 DEF Lesser, s, x
  <2>4. CASE n # 0
    <3>1. s <= limit
      BY <1>2, <2>2, <2>4, ProductCancel
    <3> QED
      BY <1>5, <3>1 DEF Lesser, s, x
  <2> QED
    BY <2>3, <2>4
<1> QED
  BY <1>4, <1>5

(* The order size before it is scaled, and the caps it has passed.         *)
LEMMA TargetFacts ==
    ASSUME NEW r \in RequestType, EffectiveEquity(r) > 0
    PROVE  /\ TargetNotional(r) \in Nat
           /\ TargetNotional(r) <= AbsoluteCap(r)
           /\ TargetNotional(r) <= Percent(Abs(DesiredExposure(r)), EffectiveEquity(r))
<1> DEFINE want == Percent(Abs(DesiredExposure(r)), EffectiveEquity(r))
           sized == (RiskBudget(r) * r.price) \div r.gap
<1>1. want \in Nat /\ AbsoluteCap(r) \in Nat
  <2>1. Abs(DesiredExposure(r)) \in Nat
    BY SizingTypes DEF Abs
  <2> QED
    BY <2>1, SizingTypes, PercentFacts
<1>2. sized \in Nat
  <2>1. r.price \in Nat /\ r.gap \in Nat \ {0} /\ RiskBudget(r) \in Nat
    BY SizingTypes DEF RequestType
  <2> DEFINE a == RiskBudget(r) * r.price
  <2>2. a \in Nat
    BY <2>1, ProductType
  <2> HIDE DEF a
  <2>3. a \div r.gap \in Nat
    BY <2>1, <2>2, Quotient
  <2> QED
    BY <2>3 DEF a
<1>3. r.depth \in Nat
  BY DEF RequestType
<1> DEFINE n == IF IsReduction(r) THEN Lesser(want, AbsoluteCap(r))
                ELSE Lesser(Lesser(want, AbsoluteCap(r)),
                            Lesser(sized, IF r.depth <= 0 THEN want ELSE r.depth))
<1> HIDE DEF want, sized
<1>4. n \in Nat /\ n <= want /\ n <= AbsoluteCap(r)
  BY <1>1, <1>2, <1>3 DEF Lesser
<1>5. TargetNotional(r) = IF n < MinimumOrderNotional THEN 0 ELSE n
  BY DEF TargetNotional, want, sized
<1> HIDE DEF n
<1>6. TargetNotional(r) \in Nat /\ TargetNotional(r) <= AbsoluteCap(r) /\ TargetNotional(r) <= want
  BY <1>1, <1>4, <1>5
<1> QED
  BY <1>6 DEF want

(* The decision: a position that grows stays within the gross exposure and *)
(* loses at its stop what the throttled budget of one trade allows, unless *)
(* what is held has already lost against its entry.                        *)
LEMMA SizeWithinRisk ==
    ASSUME NEW r \in RequestType, Size(r).allowed, Abs(Size(r).qty) > Abs(r.net)
    PROVE  LET q == Size(r).qty
           IN  /\ Abs(q) * r.price <= AbsoluteCap(r)
               /\ Sign(r.net) * (r.price - r.entry) >= 0 =>
                     10000 * StopLoss(r, Sign(q), Abs(q))
                        <= RiskPerTradeFraction * Throttle(r) * EffectiveEquity(r)
<1> DEFINE q == Size(r).qty
           side == Sign(DesiredExposure(r))
           n == TargetNotional(r) \div r.price
           loss == StopLoss(r, side, n)
           open == Scaled(n, loss, OpenRiskCap(r))
           left == Lesser(loss, OpenRiskCap(r))
           size == Scaled(open, left, RiskBudget(r))
           old == IF Sign(r.net) = side /\ r.entry > 0 THEN Abs(r.net) ELSE 0
           kept == side * (r.entry - r.price) + r.gap
<1>1. EffectiveEquity(r) > 0
  <2>1. ~(EffectiveEquity(r) <= 0)
    BY DEF Size, Refused
  <2>2. EffectiveEquity(r) \in Int
    BY SizingAssumption DEF RequestType, EffectiveEquity, Lesser
  <2> QED
    BY <2>1, <2>2
<1>2. q = IF IsReduction(r) THEN side * n ELSE side * size
  <2>1. ~(EffectiveEquity(r) <= 0 \/ WorstCase(r) > AbsoluteCap(r))
    BY DEF Size, Refused
  <2>2. Size(r) = Allowed(SizedTarget(r))
    BY <2>1 DEF Size
  <2>3. q = SizedTarget(r)
    BY <2>2 DEF Allowed
  <2> HIDE DEF q
  <2> QED
    BY <2>3 DEF SizedTarget
<1>3. /\ r.price \in Nat \ {0} /\ r.gap \in Nat \ {0} /\ r.net \in Int /\ r.entry \in Nat \ {0}
      /\ TargetNotional(r) \in Nat /\ TargetNotional(r) <= AbsoluteCap(r)
      /\ AbsoluteCap(r) \in Nat /\ DesiredExposure(r) \in Int
      /\ EffectiveEquity(r) \in Nat /\ RiskBudget(r) \in Nat /\ OpenRiskCap(r) \in Nat
  BY <1>1, SizingTypes, TargetFacts DEF RequestType
<1>4. n \in Nat /\ r.price * n <= TargetNotional(r)
  BY <1>3, Quotient
<1>5. side \in {-1, 0, 1} /\ Abs(r.net) \in Nat /\ old \in Nat /\ old <= Abs(r.net) /\ kept \in Int
  BY <1>3 DEF Sign, Abs
<1>6. ASSUME NEW x \in Nat PROVE StopLoss(r, side, x) = LossOf(x, old, kept, r.gap)
  BY DEF StopLoss, LossOf
<1>7. loss \in Nat
  <2> HIDE DEF n, old, kept
  <2>1. LossOf(n, old, kept, r.gap) \in Nat
    BY <1>3, <1>4, <1>5, LossType
  <2> QED
    BY <1>4, <1>6, <2>1
<1> HIDE DEF loss
<1>8. open \in Nat /\ open <= n /\ left \in Nat /\ size \in Nat /\ size <= open
  <2>1. open \in Nat /\ open <= n
    BY <1>3, <1>4, <1>7, ScaledFacts
  <2>2. left \in Nat
    BY <1>3, <1>7 DEF Lesser
  <2> HIDE DEF open, left
  <2> QED
    BY <1>3, <2>1, <2>2, ScaledFacts
<1> HIDE DEF open, left, size, old, kept, side, n, q
<1>9. Abs(q) <= n
  BY <1>2, <1>4, <1>5, <1>8 DEF Abs
<1>10. Abs(q) * r.price <= AbsoluteCap(r)
  <2>1. Abs(q) \in Nat
    BY <1>2, <1>4, <1>5, <1>8 DEF Abs
  <2>2. Abs(q) * r.price <= n * r.price
    BY <1>3, <1>4, <1>9, <2>1, ProductMono
  <2>3. n * r.price = r.price * n /\ r.price * n \in Nat /\ Abs(q) * r.price \in Nat
    BY <1>3, <1>4, <2>1, ProductType
  <2> QED
    BY <1>3, <1>4, <2>2, <2>3
<1>11. ~IsReduction(r)
  <2> SUFFICES ASSUME IsReduction(r) PROVE FALSE
    OBVIOUS
  <2> DEFINE w == Abs(DesiredExposure(r))
             e == EffectiveEquity(r)
             h == Abs(r.net)
  <2>1. w \in Nat
    BY <1>3 DEF Abs
  <2>2. h < n
    BY <1>2, <1>4, <1>5, <1>9 DEF q, Abs
  <2>3. side # 0 /\ DesiredExposure(r) # 0
    BY <1>2, <1>4, <1>5, <1>8 DEF q, Abs, side, Sign
  <2>4. w * e < 100 * h * r.price
    BY <2>3 DEF IsReduction
  <2>5. TargetNotional(r) <= Percent(w, e)
    BY <1>1, TargetFacts
  <2> HIDE DEF w, e, h
  <2>6. e \in Nat /\ h \in Nat
    BY <1>3, <1>5 DEF e, h
  <2>7. 100 * Percent(w, e) <= w * e /\ Percent(w, e) \in Nat
    BY <2>1, <2>6, PercentFacts
  <2>8. w * e \in Nat /\ h * r.price \in Nat /\ n * r.price \in Nat /\ r.price * n = n * r.price
    BY <1>3, <1>4, <2>1, <2>6, ProductType
  <2>9. 100 * h * r.price = 100 * (h * r.price)
    BY <1>3, <2>6
  <2>10. h * r.price <= n * r.price
    BY <1>3, <1>4, <2>2, <2>6, ProductMono
  <2>11. 100 * (n * r.price) <= w * e
    BY <1>3, <1>4, <2>5, <2>7, <2>8
  <2> QED
    BY <2>4, <2>8, <2>9, <2>10, <2>11
<1>12. /\ Abs(q) = size /\ Abs(r.net) < size /\ side # 0 /\ Sign(q) = side /\ size > 0
  <2>1. q = side * size
    BY <1>2, <1>11
  <2>2. Abs(q) > Abs(r.net)
    BY DEF q
  <2> QED
    BY <1>5, <1>8, <2>1, <2>2 DEF Abs, Sign
<1>13. ASSUME Sign(r.net) * (r.price - r.entry) >= 0
       PROVE  10000 * StopLoss(r, Sign(q), Abs(q))
                 <= RiskPerTradeFraction * Throttle(r) * EffectiveEquity(r)
  <2>1. StopLoss(r, Sign(q), Abs(q)) = LossOf(size, old, kept, r.gap)
    BY <1>6, <1>8, <1>12
  <2>2. \E c \in Int : c <= r.gap /\ \A x \in {n, open, size} :
                          LossOf(x, old, kept, r.gap) = LossOf(x, old, c, r.gap)
    <3>1. CASE Sign(r.net) = side
      <4>1. side * (r.entry - r.price) <= 0
        BY <1>3, <1>5, <1>13, <3>1
      <4>2. kept <= r.gap
        BY <1>3, <1>5, <4>1 DEF kept
      <4> QED
        BY <1>5, <4>2
    <3>2. CASE Sign(r.net) # side
      <4>1. old = 0
        BY <3>2 DEF old
      <4>2. \A x \in Nat : LossOf(x, 0, kept, r.gap) = LossOf(x, 0, 0, r.gap)
        <5> TAKE x \in Nat
        <5>1. Lesser(x, 0) = 0
          BY DEF Lesser
        <5>2. 0 * kept = 0 /\ 0 * 0 = 0
          BY <1>5
        <5> QED
          BY <5>1, <5>2 DEF LossOf
      <4> QED
        BY <1>3, <1>4, <1>8, <4>1, <4>2
    <3> QED
      BY <3>1, <3>2
  <2>3. PICK c \in Int : c <= r.gap /\ \A x \in {n, open, size} :
                            LossOf(x, old, kept, r.gap) = LossOf(x, old, c, r.gap)
    BY <2>2
  <2>4. old <= size /\ old <= open
    BY <1>5, <1>8, <1>12
  <2>5. LossOf(n, old, c, r.gap) <= loss
    <3>1. loss = LossOf(n, old, kept, r.gap)
      BY <1>4, <1>6 DEF loss
    <3> QED
      BY <1>7, <2>3, <3>1
  <2>6. LossOf(open, old, c, r.gap) <= left
    <3>1. old <= Scaled(n, loss, OpenRiskCap(r))
      BY <2>4 DEF open
    <3>2. LossOf(Scaled(n, loss, OpenRiskCap(r)), old, c, r.gap) <= Lesser(loss, OpenRiskCap(r))
      BY <1>3, <1>4, <1>5, <1>7, <2>3, <2>5, <3>1, ScaledLoss
    <3> QED
      BY <3>2 DEF open, left
  <2>7. LossOf(size, old, c, r.gap) <= Lesser(left, RiskBudget(r))
    <3>1. old <= Scaled(open, left, RiskBudget(r))
      BY <2>4 DEF size
    <3> QED
      BY <1>3, <1>5, <1>8, <2>3, <2>6, <3>1, ScaledLoss DEF size
  <2>8. StopLoss(r, Sign(q), Abs(q)) <= RiskBudget(r) /\ StopLoss(r, Sign(q), Abs(q)) \in Nat
    <3>1. LossOf(size, old, c, r.gap) \in Nat
      BY <1>3, <1>5, <1>8, <2>3, LossType
    <3> QED
      BY <1>3, <1>8, <2>1, <2>3, <2>7, <3>1 DEF Lesser
  <2>9. 10000 * RiskBudget(r) <= RiskPerTradeFraction * Throttle(r) * EffectiveEquity(r)
    BY <1>1, SizingTypes
  <2>10. RiskPerTradeFraction * Throttle(r) * EffectiveEquity(r) \in Nat
    BY <1>1, SizingTypes, SizingAssumption, ProductType
  <2> DEFINE z == RiskPerTradeFraction * Throttle(r) * EffectiveEquity(r)
  <2> HIDE DEF z
  <2> QED
    BY <1>3, <2>8, <2>9, <2>10 DEF z
<1> QED
  BY <1>10, <1>13 DEF q

-----------------------------------------------------------------------------
(* Quantities, equities and the calendar.                                  *)
LEMMA EquityTypes ==
    ASSUME TypeOK
    PROVE  /\ price \in Nat \ {0} /\ cash \in Nat /\ held \in Int
           /\ CapitalBase \in Nat \ {0}
           /\ \A f : EquityUSD(f) \in Int /\ Observed(f) \in Nat \ {0}
<1>1. price \in Nat \ {0} /\ cash \in Nat /\ held \in Int /\ CapitalBase \in Nat \ {0}
  BY RiskAssumption, SizingAssumption DEF TypeOK
<1>2. ASSUME NEW f PROVE EquityUSD(f) \in Int
  <2>1. FairPrice(f) \in Int
    BY <1>1 DEF FairPrice
  <2> DEFINE v == IF held > 0 THEN FairPrice(f) ELSE price
  <2>2. v \in Int
    BY <1>1, <2>1
  <2> HIDE DEF v
  <2>3. cash + held * v \in Int
    BY <1>1, <2>2
  <2> QED
    BY <2>3 DEF EquityUSD, v
<1>3. ASSUME NEW f PROVE Observed(f) \in Nat \ {0}
  BY <1>1, <1>2 DEF Observed
<1> QED
  BY <1>1, <1>2, <1>3

(* What a tick may settle on is a whole quantity.                          *)
LEMMA SizeType ==
    ASSUME NEW r \in RequestType
    PROVE  Size(r).qty \in Int
<1>1. CASE EffectiveEquity(r) <= 0 \/ WorstCase(r) > AbsoluteCap(r)
  BY <1>1 DEF Size, Refused
<1>2. CASE ~(EffectiveEquity(r) <= 0 \/ WorstCase(r) > AbsoluteCap(r))
  <2> DEFINE side == Sign(DesiredExposure(r))
             n == TargetNotional(r) \div r.price
             loss == StopLoss(r, side, n)
             open == Scaled(n, loss, OpenRiskCap(r))
             left == Lesser(loss, OpenRiskCap(r))
             old == IF Sign(r.net) = side /\ r.entry > 0 THEN Abs(r.net) ELSE 0
             kept == side * (r.entry - r.price) + r.gap
  <2>1. EffectiveEquity(r) > 0
    <3>1. EffectiveEquity(r) \in Int
      BY SizingAssumption DEF RequestType, EffectiveEquity, Lesser
    <3> QED
      BY <1>2, <3>1
  <2>2. /\ r.price \in Nat \ {0} /\ r.gap \in Nat \ {0} /\ r.net \in Int /\ r.entry \in Nat
        /\ TargetNotional(r) \in Nat
        /\ RiskBudget(r) \in Nat /\ OpenRiskCap(r) \in Nat
    BY <2>1, SizingTypes, TargetFacts DEF RequestType
  <2>3. n \in Nat
    BY <2>2, Quotient
  <2>4. side \in {-1, 0, 1} /\ old \in Nat /\ kept \in Int
    BY <2>2 DEF Sign, Abs
  <2>5. loss = LossOf(n, old, kept, r.gap)
    BY DEF StopLoss, LossOf
  <2> HIDE DEF n, old, kept, side
  <2>6. loss \in Nat
    <3>1. LossOf(n, old, kept, r.gap) \in Nat
      BY <2>2, <2>3, <2>4, LossType
    <3> QED
      BY <2>5, <3>1
  <2> HIDE DEF loss
  <2>7. open \in Nat /\ left \in Nat
    BY <2>2, <2>3, <2>6, ScaledFacts DEF Lesser
  <2> HIDE DEF open, left
  <2>8. Scaled(open, left, RiskBudget(r)) \in Nat
    BY <2>2, <2>7, ScaledFacts
  <2>9. Size(r).qty = IF IsReduction(r) THEN side * n
                      ELSE side * Scaled(open, left, RiskBudget(r))
    <3>1. Size(r).qty = SizedTarget(r)
      BY <1>2 DEF Size, Allowed
    <3> QED
      BY <3>1 DEF SizedTarget, side, n, loss, open, left
  <2> QED
    BY <2>3, <2>4, <2>8, <2>9
<1> QED
  BY <1>1, <1>2

LEMMA RequestFacts ==
    ASSUME TypeOK, target \in Int, NEW m, m.dayStart \in Nat, NEW x \in Exposures, NEW g \in Gaps,
           NEW l \in Depths, NEW p \in Prices
    PROVE  Request(m, x, g, l, p) \in RequestType
<1>1. Observed("valid") \in Nat \ {0} /\ price \in Nat \ {0} /\ held \in Int
  BY EquityTypes
<1>2. x \in Int /\ g \in Nat \ {0} /\ l \in Nat /\ p \in Nat \ {0}
  BY RiskAssumption
<1>3. AtWork \in Int
  BY <1>1 DEF AtWork
<1>4. Greater(0, m.dayStart - Observed("valid")) \in Nat
  BY <1>1 DEF Greater
<1> QED
  BY <1>1, <1>2, <1>3, <1>4 DEF Request, RequestType

LEMMA ObservedTypes ==
    ASSUME TypeOK, NEW e \in Nat
    PROVE  ObserveEquity(mem, e) \in StateType
<1>1. mem \in StateType /\ day \in 0 .. MaxDays
  BY RiskAssumption DEF TypeOK
<1>2. Week(day) \in Int
  BY <1>1, RiskAssumption DEF Week
<1>3. Anchored(mem, e) \in [day : 0 .. MaxDays, dayStart : Nat, week : Int, weekStart : Nat,
                            high : Nat, losses : Nat, halt : BOOLEAN]
  BY <1>1, <1>2 DEF Anchored, StateType, Greater
<1>4. LimitReached(Anchored(mem, e), e) \in BOOLEAN
  BY DEF LimitReached
<1> QED
  BY <1>3, <1>4 DEF ObserveEquity, Latched, StateType

LEMMA RiskTypeInit == Init => TypeOK
<1> SUFFICES ASSUME Init PROVE TypeOK
  OBVIOUS
<1>1. day \in 1 .. MaxDays /\ moves \in 0 .. MaxMoves /\ failures \in 0 .. MaxFailures
      /\ crashes \in 0 .. MaxCrashes
  BY RiskAssumption DEF Init
<1>2. NoState \in StateType
  BY RiskAssumption DEF NoState, StateType
<1>3. earned \in BOOLEAN /\ forgot \in BOOLEAN
  BY DEF Init
<1> QED
  BY <1>1, <1>2, <1>3, SizingAssumption DEF Init, TypeOK

LEMMA SaveTypes ==
    ASSUME TypeOK, NEW m \in StateType, Save(m)
    PROVE  disk' \in StateType /\ failures' \in 0 .. MaxFailures
BY RiskAssumption DEF TypeOK, Save

LEMMA TickTypes ==
    ASSUME TypeOK, Tick
    PROVE  TypeOK'
<1>1. PICK f \in FairStates, haltFile \in BOOLEAN :
         /\ mem' = ObserveEquity(mem, Observed(f))
         /\ IF ObserveEquity(mem, Observed(f)) # mem
            THEN Save(ObserveEquity(mem, Observed(f))) ELSE UNCHANGED <<disk, failures>>
         /\ target' \in Targets(mem', f, haltFile)
         /\ UNCHANGED <<day, price, cash, held, moves, crashes, losses, forgot>>
         /\ earned' \in BOOLEAN
  BY DEF Tick, world
<1>2. mem' \in StateType
  BY <1>1, EquityTypes, ObservedTypes
<1>3. disk' \in StateType /\ failures' \in 0 .. MaxFailures
  <2>1. CASE ObserveEquity(mem, Observed(f)) # mem
    BY <1>1, <1>2, <2>1, SaveTypes
  <2>2. CASE ObserveEquity(mem, Observed(f)) = mem
    BY <1>1, <2>2 DEF TypeOK
  <2> QED
    BY <2>1, <2>2
<1>4. target' \in Int
  <2>1. mem'.dayStart \in Nat
    BY <1>2 DEF StateType
  <2>2. \A x \in Exposures, g \in Gaps, l \in Depths, p \in Prices :
           Size(Request(mem', x, g, l, p)).qty \in Int
    <3> TAKE x \in Exposures, g \in Gaps, l \in Depths, p \in Prices
    <3>1. target \in Int
      BY DEF TypeOK
    <3>2. Request(mem', x, g, l, p) \in RequestType
      BY <2>1, <3>1, RequestFacts
    <3> QED
      BY <3>2, SizeType
  <2>3. target' \in {0, held} \/ \E x \in Exposures, g \in Gaps, l \in Depths, p \in Prices :
           target' = Size(Request(mem', x, g, l, p)).qty
    BY <1>1 DEF Targets
  <2> QED
    BY <2>2, <2>3, EquityTypes
<1> QED
  BY <1>1, <1>2, <1>3, <1>4 DEF TypeOK

LEMMA TradeTypes ==
    ASSUME TypeOK, TradeCloses
    PROVE  TypeOK'
<1>1. PICK pnl \in {-1, 1} :
         /\ mem' = Latched(mem, Counted(mem.losses, pnl), TooManyLosses(Counted(mem.losses, pnl)))
         /\ Save(mem')
         /\ losses' = Counted(losses, pnl)
         /\ earned' \in BOOLEAN
  BY DEF TradeCloses
<1>2. /\ moves < MaxMoves /\ moves' = moves + 1
      /\ UNCHANGED <<day, price, cash, held, target, crashes, forgot>>
  BY DEF TradeCloses, world
<1>3. \A n \in Nat : Counted(n, pnl) \in Nat /\ TooManyLosses(n) \in BOOLEAN
  BY DEF Counted, TooManyLosses
<1>4. mem' \in StateType
  BY <1>1, <1>3 DEF TypeOK, StateType, Latched
<1>5. disk' \in StateType /\ failures' \in 0 .. MaxFailures
  BY <1>1, <1>4, SaveTypes
<1>6. losses' \in Nat /\ moves' \in 0 .. MaxMoves
  BY <1>1, <1>2, <1>3, RiskAssumption DEF TypeOK
<1> QED
  BY <1>1, <1>2, <1>4, <1>5, <1>6 DEF TypeOK

LEMMA MarketTypes ==
    ASSUME TypeOK, Trades \/ PriceMoves \/ DayEnds \/ Restart
    PROVE  TypeOK'
<1>1. CASE Trades
  <2>1. PICK h \in Lesser(held, target) .. Greater(held, target) :
           /\ h > held => cash >= (h - held) * price
           /\ held' = h /\ cash' = cash - (h - held) * price
    BY <1>1 DEF Trades
  <2>2. h \in Int /\ held \in Int /\ price \in Nat /\ cash \in Nat
    BY <2>1, EquityTypes
  <2>3. cash - (h - held) * price \in Nat
    <3>1. (h - held) * price \in Int
      BY <2>2
    <3>2. CASE h > held
      BY <2>1, <2>2, <3>1, <3>2
    <3>3. CASE ~(h > held)
      <4>1. held - h \in Nat
        BY <2>2, <3>3
      <4>2. (held - h) * price \in Nat
        BY <2>2, <4>1, ProductType
      <4>3. (h - held) * price = -((held - h) * price)
        BY <2>2
      <4> QED
        BY <2>2, <3>1, <4>2, <4>3
    <3> QED
      BY <3>2, <3>3
  <2> QED
    BY <1>1, <2>1, <2>2, <2>3 DEF Trades, TypeOK, history
<1>2. CASE PriceMoves
  BY <1>2, RiskAssumption DEF PriceMoves, TypeOK, history
<1>3. CASE DayEnds
  BY <1>3, RiskAssumption DEF DayEnds, TypeOK, history
<1>4. CASE Restart
  <2>1. forgot' \in BOOLEAN
    BY <1>4 DEF Restart, TypeOK
  <2>2. crashes' \in 0 .. MaxCrashes
    BY <1>4, RiskAssumption DEF Restart, TypeOK
  <2> QED
    BY <1>4, <2>1, <2>2 DEF Restart, TypeOK, world
<1> QED
  BY <1>1, <1>2, <1>3, <1>4

(* The types of the account, of the manager's state in memory and on disk  *)
(* and of the target a tick settles on.                                    *)
THEOREM RiskTypes == Spec => []TypeOK
<1>1. TypeOK /\ [Next]_vars => TypeOK'
  <2> SUFFICES ASSUME TypeOK, [Next]_vars PROVE TypeOK'
    OBVIOUS
  <2>1. CASE UNCHANGED vars
    BY <2>1 DEF vars, world, history, TypeOK
  <2> QED
    BY <2>1, TickTypes, TradeTypes, MarketTypes DEF Next
<1> QED
  BY <1>1, RiskTypeInit, PTL DEF Spec

(* Evaluate (internal/risk): as long as a fair price exists and no crash   *)
(* followed a failed write, a position that a tick lets grow stays within  *)
(* the gross exposure of the true equity, and loses at its stop no more    *)
(* than the throttled budget of one trade, unless what is held has already *)
(* lost against its entry; for every price, stop, depth and limit.         *)
THEOREM GrowthIsWithinRisk == ASSUME FairThroughout PROVE Spec => []GrowthWithinRisk
<1>1. TypeOK /\ RiskInv => GrowthWithinRisk
  <2> SUFFICES ASSUME TypeOK, RiskInv, ~forgot,
                      NEW x \in Exposures, NEW g \in Gaps, NEW l \in Depths, NEW p \in Prices
               PROVE  LET r == Request(ObserveEquity(mem, Observed("valid")), x, g, l, p)
                          t == InTruth(r)
                          d == Size(r)
                      IN  d.allowed /\ Abs(d.qty) > Abs(held) =>
                             /\ Abs(d.qty) * price <= AbsoluteCap(t)
                             /\ Sign(held) * (price - p) >= 0 =>
                                   10000 * StopLoss(t, Sign(d.qty), Abs(d.qty))
                                      <= RiskPerTradeFraction * Throttle(t) * EffectiveEquity(t)
    BY DEF GrowthWithinRisk
  <2> DEFINE m == ObserveEquity(mem, Observed("valid"))
             r == Request(m, x, g, l, p)
             q == Size(r).qty
  <2>1. Observed("valid") = TrueEquity /\ Observed("valid") \in Nat \ {0}
    BY RiskAssumption, EquityIsTrue, EquityTypes
  <2>2. m \in StateType
    BY <2>1, ObservedTypes
  <2>3. m.dayStart \in Nat /\ target \in Int
    BY <2>2 DEF StateType, TypeOK
  <2>4. m.dayStart = FirstSeen(seen.day = day, seen.dayStart)
    <3>1. m.dayStart = IF mem.day # day \/ mem.dayStart <= 0 THEN TrueEquity ELSE mem.dayStart
      BY <2>1 DEF ObserveEquity, Latched, Anchored
    <3>2. mem.day = seen.day /\ mem.dayStart = seen.dayStart /\ seen.dayStart \in Int
      BY DEF RiskInv, Agrees
    <3> HIDE DEF m
    <3> QED
      BY <3>1, <3>2 DEF FirstSeen
  <2> HIDE DEF m
  <2>5. r \in RequestType
    BY <2>3, RequestFacts
  <2>6. r.net = held /\ r.price = price /\ r.entry = p /\ r.equity = Observed("valid")
        /\ r.dayLoss = Greater(0, m.dayStart - Observed("valid"))
    BY DEF Request
  <2> HIDE DEF r
  <2>7. InTruth(r) = r
    BY <2>1, <2>4, <2>5, <2>6 DEF RequestType, InTruth
  <2>8. ASSUME Size(r).allowed, Abs(q) > Abs(held)
        PROVE  /\ Abs(q) * r.price <= AbsoluteCap(r)
               /\ Sign(r.net) * (r.price - r.entry) >= 0 =>
                     10000 * StopLoss(r, Sign(q), Abs(q)) <=
                       RiskPerTradeFraction * Throttle(r) * EffectiveEquity(r)
    <3>1. Abs(Size(r).qty) > Abs(r.net)
      BY <2>6, <2>8
    <3> QED
      BY <2>5, <2>8, <3>1, SizeWithinRisk
  <2> QED
    <3>1. ASSUME Size(r).allowed, Abs(q) > Abs(held)
          PROVE  /\ Abs(q) * price <= AbsoluteCap(InTruth(r))
                 /\ Sign(held) * (price - p) >= 0 =>
                       10000 * StopLoss(InTruth(r), Sign(q), Abs(q)) <=
                         RiskPerTradeFraction * Throttle(InTruth(r)) * EffectiveEquity(InTruth(r))
      BY <2>6, <2>7, <2>8, <3>1
    <3> QED
      BY <3>1 DEF r, m
<1> QED
  BY <1>1, RiskTypes, RiskInvariance, PTL
=============================================================================

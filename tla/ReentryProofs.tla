--------------------------- MODULE ReentryProofs ---------------------------
(***************************************************************************)
(* The re-entry block through the whole tick, for every market, target,    *)
(* cooldown and threshold: a stopped direction stays closed until the      *)
(* cooldown is over and the thesis was reset, and what the tick does at    *)
(* the exchange is what the abstract desk allows.                          *)
(***************************************************************************)
EXTENDS Reentry, SyncLoopProofs, SequenceTheorems, WellFoundedInduction

Blocks == [{-1, 1} -> -1 .. Cooldown]
Trades == [side : {-1, 1}, stop : BOOLEAN, elapsed : 0 .. Cooldown]

(* What the block rests on: well-formed orders, one of a group, and a      *)
(* tracker whose position has a stop, beside the types.                    *)
ReentryInv == TickInv /\ ReentryTypeOK

-----------------------------------------------------------------------------
(* The operators of the tick and their types.                              *)
LEMMA SideFacts ==
    ASSUME NEW x \in Int
    PROVE  /\ Side(x) \in {-1, 0, 1}
           /\ x # 0 => Side(x) \in {-1, 1}
           /\ Side(x) = 1 <=> x > 0
           /\ Side(x) = -1 <=> x < 0
BY DEF Side

LEMMA OlderFacts ==
    ASSUME NEW e \in -1 .. Cooldown
    PROVE  /\ Older(e) \in -1 .. Cooldown
           /\ e # -1 => Older(e) \in 0 .. Cooldown
BY StrategyAssumption DEF Older

LEMMA OlderBlocks ==
    ASSUME NEW b \in Blocks
    PROVE  [s \in {-1, 1} |-> Older(b[s])] \in Blocks
<1>1. \A s \in {-1, 1} : Older(b[s]) \in -1 .. Cooldown
  BY OlderFacts DEF Blocks
<1> QED
  BY <1>1 DEF Blocks

LEMMA MarkedBlocks ==
    ASSUME NEW b \in Blocks, NEW side \in {-1, 0, 1}
    PROVE  MarkStopped(b, side, 0) \in Blocks
BY StrategyAssumption DEF MarkStopped, Blocks

LEMMA ReleasedBlocks ==
    ASSUME NEW f \in Features, NEW held, NEW b \in Blocks
    PROVE  BlockAfter(f, held, b) \in Blocks
<1>1. f.raw \in {-1, 0, 1}
  BY ReentryAssumption
<1> QED
  BY <1>1, StrategyAssumption DEF BlockAfter, AsksForEntry, Blocks, Unblocked

(* A set of numbers with an upper bound has a greatest member: the one     *)
(* whose distance to the bound is least.                                   *)
LEMMA MaxIs ==
    ASSUME NEW n \in Nat, NEW T, T \subseteq 1 .. n, T # {}
    PROVE  Max(T) \in T
<1> DEFINE R == OpToRel(<, Nat)
           Gaps == {n - x : x \in T}
<1>1. IsWellFoundedOn(R, Nat)
  BY NatLessThanWellFounded
<1>2. \A x, y \in Nat : <<y, x>> \in R <=> y < x
  BY DEF OpToRel
<1>3. Gaps \subseteq Nat /\ Gaps # {}
  <2>1. \A x \in T : n - x \in Nat
    OBVIOUS
  <2> QED
    BY <2>1
<1>4. PICK d \in Gaps : \A e \in Gaps : ~(<<e, d>> \in R)
  <2> HIDE DEF R, Gaps
  <2> QED
    BY <1>1, <1>3, WFMin
<1>5. PICK x \in T : d = n - x
  BY <1>4
<1> HIDE DEF R
<1>6. ASSUME NEW m \in T PROVE m <= x
  <2>1. n - m \in Gaps /\ n - m \in Nat /\ n - x \in Nat
    OBVIOUS
  <2>2. ~(n - m < n - x)
    BY <1>2, <1>4, <1>5, <2>1
  <2> QED
    BY <2>2
<1>7. \E y \in T : \A m \in T : y >= m
  BY <1>6
<1> QED
  BY <1>7 DEF Max

LEMMA BlocksAfterFills ==
    ASSUME NEW b \in Blocks, NEW seen \in Seq(Trades), NEW why
    PROVE  AfterFills(b, seen, why) \in Blocks
<1>1. Len(seen) \in Nat /\ DOMAIN seen = 1 .. Len(seen)
      /\ \A n \in 1 .. Len(seen) : seen[n] \in Trades
  BY LenProperties, ElementOfSeq
<1>2. ASSUME NEW side \in {-1, 1}, Stopouts(seen, why, side) # {}
      PROVE  seen[Max(Stopouts(seen, why, side))].elapsed \in 0 .. Cooldown
  <2>1. Stopouts(seen, why, side) \subseteq 1 .. Len(seen)
    BY <1>1 DEF Stopouts
  <2>2. Max(Stopouts(seen, why, side)) \in 1 .. Len(seen)
    BY <1>1, <1>2, <2>1, MaxIs
  <2> QED
    BY <1>1, <2>2 DEF Trades
<1> DEFINE after(side) == IF Stopouts(seen, why, side) = {} THEN b[side]
                          ELSE seen[Max(Stopouts(seen, why, side))].elapsed
<1>3. ASSUME NEW side \in {-1, 1} PROVE after(side) \in -1 .. Cooldown
  <2>1. b[side] \in -1 .. Cooldown /\ Cooldown \in Nat
    BY StrategyAssumption DEF Blocks
  <2>2. CASE Stopouts(seen, why, side) = {}
    BY <2>1, <2>2
  <2>3. CASE Stopouts(seen, why, side) # {}
    <3>1. after(side) \in 0 .. Cooldown
      BY <1>2, <2>3
    <3> HIDE DEF after
    <3> QED
      BY <2>1, <3>1
  <2> QED
    BY <2>2, <2>3
<1>4. AfterFills(b, seen, why) = [side \in {-1, 1} |-> after(side)]
  BY DEF AfterFills
<1> HIDE DEF after
<1> QED
  BY <1>3, <1>4 DEF Blocks

LEMMA OlderTrades == closings \in Seq(Trades) => OlderClosings \in Seq(Trades)
<1> SUFFICES ASSUME closings \in Seq(Trades) PROVE OlderClosings \in Seq(Trades)
  OBVIOUS
<1>1. Len(closings) \in Nat /\ DOMAIN closings = 1 .. Len(closings)
      /\ \A n \in 1 .. Len(closings) : closings[n] \in Trades
  BY LenProperties, ElementOfSeq
<1>2. ASSUME NEW n \in 1 .. Len(closings)
      PROVE  [closings[n] EXCEPT !.elapsed = Older(@)] \in Trades
  <2>1. closings[n] \in Trades /\ closings[n].elapsed \in -1 .. Cooldown
        /\ closings[n].elapsed # -1
    BY <1>1, StrategyAssumption DEF Trades
  <2>2. Older(closings[n].elapsed) \in 0 .. Cooldown
    BY <2>1, OlderFacts
  <2> QED
    BY <2>1, <2>2 DEF Trades
<1>3. OlderClosings \in [1 .. Len(closings) -> Trades]
  BY <1>1, <1>2 DEF OlderClosings
<1> QED
  BY <1>1, <1>3, SeqDef

LEMMA ClosedTrades ==
    ASSUME ReentryInv, NEW stop \in BOOLEAN, Closing(stop), spot' \in Nat, margin' \in Int
    PROVE  closings' \in Seq(Trades)
<1>1. closings \in Seq(Trades) /\ spot \in Nat /\ margin \in Int
  BY DEF ReentryInv, ReentryTypeOK, ExchangeTypeOK, Trades
<1> DEFINE trade == [side |-> Side(spot + margin), stop |-> stop, elapsed |-> 0]
<1>2. spot + margin # 0 => trade \in Trades
  BY <1>1, SideFacts, StrategyAssumption DEF Trades
<1>3. closings' = IF spot + margin # 0 /\ spot' + margin' = 0
                  THEN Append(closings, trade) ELSE closings
  BY DEF Closing
<1> HIDE DEF trade
<1>4. CASE closings' = closings
  BY <1>1, <1>4
<1>5. CASE spot + margin # 0 /\ closings' = Append(closings, trade)
  BY <1>1, <1>2, <1>5
<1> QED
  BY <1>3, <1>4, <1>5

-----------------------------------------------------------------------------
(* A target that is larger than what is held, on the side it is held or    *)
(* on the other, is one the signal asked for; and a signal asks for a side *)
(* only when nothing blocks it.                                            *)
LEMMA WantedSide ==
    ASSUME NEW f \in Features, NEW net \in Int, NEW b, NEW side \in {-1, 1},
           ~Signal(f, Side(net), b).noNew,
           NEW q \in Int, q \in Sized(Signal(f, Side(net), b).want, net),
           side * q > 0, side * q > side * net
    PROVE  f.raw = side /\ ~ReentryBlocked(b, side, f)
<1> DEFINE s == Signal(f, Side(net), b)
<1>1. f.raw \in {-1, 0, 1}
  BY ReentryAssumption
<1>2. s.want \in {"flat", "long", "short", "hold"}
  BY DEF Signal, Wants, Refuses
<1>3. s.want = "hold" => net # 0
  BY DEF Signal, Wants, Refuses, Side
<1>4. /\ s.want = "long" => f.raw = 1 /\ ~ReentryBlocked(b, 1, f)
      /\ s.want = "short" => f.raw = -1 /\ ~ReentryBlocked(b, -1, f)
  BY <1>1 DEF Signal, Wants, Refuses
<1> HIDE DEF s
<1>5. CASE s.want = "flat"
  BY <1>5 DEF Sized, s
<1>6. CASE s.want = "hold"
  <2>1. q = net \/ (q * net >= 0 /\ Abs(q) <= Abs(net))
    BY <1>6 DEF Sized, s
  <2>2. CASE net > 0
    <3>1. q >= 0 \/ q = net
      BY <2>1, <2>2
    <3> QED
      BY <2>1, <2>2, <3>1 DEF Abs
  <2>3. CASE net < 0
    <3>1. q <= 0 \/ q = net
      BY <2>1, <2>3
    <3> QED
      BY <2>1, <2>3, <3>1 DEF Abs
  <2> QED
    BY <1>3, <1>6, <2>2, <2>3
<1>7. CASE s.want = "long"
  <2>1. q >= 0
    BY <1>7 DEF Sized, s
  <2> QED
    BY <1>4, <1>7, <2>1
<1>8. CASE s.want = "short"
  <2>1. q <= 0
    BY <1>8 DEF Sized, s
  <2> QED
    BY <1>4, <1>8, <2>1
<1> QED
  BY <1>2, <1>5, <1>6, <1>7, <1>8

(* Once a block is a tick older, finding it released means that the        *)
(* cooldown is over and the thesis reset.                                  *)
LEMMA ReleasedBlock ==
    ASSUME NEW b \in Blocks, NEW side \in {-1, 1}, b[side] # Unblocked, NEW f,
           ~ReentryBlocked([s \in {-1, 1} |-> Older(b[s])], side, f)
    PROVE  Older(b[side]) = Cooldown /\ ThesisReset(f)
<1>1. Older(b[side]) \in 0 .. Cooldown
  BY OlderFacts DEF Blocks, Unblocked
<1> QED
  BY <1>1, StrategyAssumption DEF ReentryBlocked, Unblocked

(* An order a plan opens lies between what is held and the target.         *)
LEMMA OpensTowardsTarget ==
    ASSUME TickInv, NEW t \in TrackerType, NEW q \in Int, NEW flatten \in BOOLEAN,
           NEW refused \in BOOLEAN, NEW c \in Nat, NEW aged, NEW ok,
           Simultaneous(account) /\ ok => flatten,
           NEW i \in TickPlan(account, t, q, flatten, refused, c, aged, ok).intent,
           Opens(i.venue, i.amt), NEW side \in {-1, 1}, Side(i.amt) = side
    PROVE  ~flatten /\ ~refused /\ side * q > 0 /\ side * q > side * NetXAUT(account)
<1> DEFINE In == PlannerInput(account, t, q, c, aged, ok)
<1>1. /\ spot \in Nat /\ margin \in Int /\ margin <= 0
      /\ account.spot = spot /\ account.margin = margin
  BY TickInvFacts
<1>2. IntentOK(i) /\ ~flatten /\ ~refused
  BY <1>1, TickPlanFacts
<1>3. i \in Plan(In).intent
  BY <1>2 DEF TickPlan
<1>4. /\ InputOK(In) /\ In.target = q /\ In.spot = spot /\ In.margin = margin
  BY <1>1 DEF InputOK, PlannerInput, TrackerType
<1> HIDE DEF In
<1>5. i \in Protective(In).intent \/ TradeOK(In, i)
  BY <1>3, <1>4, PlannedIntents
<1>6. i \notin Protective(In).intent
  BY <1>2, <1>4, StopFacts DEF IntentOK
<1>7. Long(In) = spot /\ Short(In) = -margin
  BY <1>1, <1>4 DEF Long, Short, Greater, Lesser, Abs
<1>8. i.amt \in Int /\ Tol \in Nat /\ NetXAUT(account) = spot + margin
  BY <1>1, <1>2, PlannerAssumption DEF IntentOK, NetXAUT
<1>9. \/ i.amt > 0 /\ q > Tol /\ spot + i.amt <= q
      \/ i.amt < 0 /\ q < -Tol /\ -margin - i.amt <= -q
  <2>1. \/ /\ i.venue = "spot" /\ i.amt < 0
        \/ /\ i.venue = "margin" /\ i.amt > 0
        \/ i.amt > 0 /\ In.target > Tol /\ Long(In) + i.amt <= In.target
        \/ i.amt < 0 /\ In.target < -Tol /\ Short(In) - i.amt <= -In.target
    BY <1>5, <1>6 DEF TradeOK
  <2>2. ~(i.venue = "spot" /\ i.amt < 0) /\ ~(i.venue = "margin" /\ i.amt > 0)
    BY <1>8 DEF Opens
  <2> QED
    BY <1>4, <1>7, <2>1, <2>2
<1>10. (i.amt > 0 => side = 1) /\ (i.amt < 0 => side = -1)
  BY <1>8 DEF Side
<1> QED
  BY <1>1, <1>2, <1>8, <1>9, <1>10

-----------------------------------------------------------------------------
(* What a trading tick does: the tracker follows the account, the block is *)
(* looked at and renewed, and the plan towards the target is executed.     *)
LEMMA TickDoes ==
    ASSUME ReentryInv, TradingTick
    PROVE  \E f \in Features, t \in TrackerType, b \in Blocks, q \in Int,
              exit \in BOOLEAN, refused \in BOOLEAN, ok \in BOOLEAN, aged \in SUBSET OrderIds :
              /\ t.qty # 0 => t.stop > 0
              /\ tracker' = t /\ target' = q /\ blocked' = refused
              /\ UNCHANGED <<spot, margin, cap>>
              /\ changes' \in 0 .. MaxChanges
              /\ block' \in Blocks
              /\ closings' \in Seq(Trades)
              /\ reason' \in {"none", "stop", "other"}
              /\ reset' = ThesisReset(f)
              /\ ~exit => b = [s \in {-1, 1} |-> Older(block[s])]
              /\ ~refused => /\ ~Signal(f, Side(NetXAUT(account)), b).noNew
                             /\ q \in Sized(Signal(f, Side(NetXAUT(account)), b).want,
                                            NetXAUT(account))
              /\ Simultaneous(account) /\ ok => exit
              /\ Execute(TickPlan(account, t, q, exit, refused, cap, aged, ok))
<1> DEFINE net == NetXAUT(account)
           held == Side(net)
           older == [s \in {-1, 1} |-> Older(block[s])]
<1>1. /\ spot \in Nat /\ margin \in Int /\ margin <= 0
      /\ account.spot = spot /\ account.margin = margin
      /\ tracker \in TrackerType /\ (tracker.qty # 0 => tracker.stop > 0)
      /\ block \in Blocks /\ closings \in Seq(Trades)
      /\ reason \in {"none", "stop", "other"}
      /\ changes \in 0 .. MaxChanges /\ MaxChanges \in Nat
  BY TickInvFacts, SyncLoopAssumption DEF ReentryInv, ReentryTypeOK, Blocks, Trades
<1>2. net \in Int
  BY <1>1 DEF NetXAUT
<1>3. PICK f \in Features, level \in Levels, aged \in SUBSET Ids(WithGid(orders, "work")),
           bookOk \in BOOLEAN, allowed \in BOOLEAN, fetched \in BOOLEAN :
        LET t     == IF bookOk THEN Observe(tracker, account, level) ELSE tracker
            exit  == bookOk /\ ExitRequired(t, account)
            stop  == exit /\ ~Simultaneous(account) /\ t.hit
            known == IF stop THEN MarkStopped(older, Side(t.qty), 0) ELSE older
            why   == IF ~exit THEN reason ELSE IF stop THEN "stop" ELSE "other"
            s     == Signal(f, held, known)
            seen  == IF fetched THEN closings ELSE <<>>
            after == IF seen = <<>> THEN why ELSE "none"
            refused == s.noNew \/ ~allowed \/ ~bookOk
        IN  \E q \in IF refused THEN {net} ELSE Sized(s.want, net) :
                /\ fetched \/ closings = <<>> \/ changes < MaxChanges
                /\ changes' = IF fetched \/ closings = <<>> THEN changes ELSE changes + 1
                /\ tracker' = t
                /\ target' = q
                /\ blocked' = refused
                /\ block' = AfterFills(BlockAfter(f, held, known), seen, why)
                /\ closings' = IF fetched THEN <<>> ELSE OlderClosings
                /\ reason' = IF ~refused /\ Abs(net) > Tol /\ (Abs(q) <= Tol \/ q * net < 0)
                             THEN "other" ELSE after
                /\ reset' = ThesisReset(f)
                /\ Execute(TickPlan(account, t, q, exit, refused, cap, aged, bookOk))
                /\ UNCHANGED <<spot, margin, cap>>
  BY DEF TradingTick
<1> DEFINE t     == IF bookOk THEN Observe(tracker, account, level) ELSE tracker
           exit  == bookOk /\ ExitRequired(t, account)
           stop  == exit /\ ~Simultaneous(account) /\ t.hit
           known == IF stop THEN MarkStopped(older, Side(t.qty), 0) ELSE older
           why   == IF ~exit THEN reason ELSE IF stop THEN "stop" ELSE "other"
           s     == Signal(f, held, known)
           seen  == IF fetched THEN closings ELSE <<>>
           after == IF seen = <<>> THEN why ELSE "none"
           refused == s.noNew \/ ~allowed \/ ~bookOk
<1>4. PICK q \in IF refused THEN {net} ELSE Sized(s.want, net) :
                /\ fetched \/ closings = <<>> \/ changes < MaxChanges
                /\ changes' = IF fetched \/ closings = <<>> THEN changes ELSE changes + 1
                /\ tracker' = t
                /\ target' = q
                /\ blocked' = refused
                /\ block' = AfterFills(BlockAfter(f, held, known), seen, why)
                /\ closings' = IF fetched THEN <<>> ELSE OlderClosings
                /\ reason' = IF ~refused /\ Abs(net) > Tol /\ (Abs(q) <= Tol \/ q * net < 0)
                             THEN "other" ELSE after
                /\ reset' = ThesisReset(f)
                /\ Execute(TickPlan(account, t, q, exit, refused, cap, aged, bookOk))
                /\ UNCHANGED <<spot, margin, cap>>
  BY <1>3
<1>5. t \in TrackerType /\ (t.qty # 0 => t.stop > 0)
      /\ (Simultaneous(account) /\ bookOk => exit)
  BY <1>1, TickObserves DEF ReentryInv
<1>6. s.noNew \in BOOLEAN /\ s.want \in {"flat", "long", "short", "hold"}
  BY DEF Signal, Wants, Refuses
<1>7. exit \in BOOLEAN /\ refused \in BOOLEAN
  <2>1. ExitRequired(t, account) \in BOOLEAN
    BY <1>5 DEF ExitRequired, Simultaneous, TrackerType
  <2> QED
    BY <1>6, <2>1
<1>8. q \in Int
  <2>1. Sized(s.want, net) \subseteq Int
    BY <1>2, <1>6, SyncLoopAssumption DEF Sized
  <2> QED
    BY <1>2, <1>4, <2>1
<1>9. known \in Blocks /\ (~exit => known = older)
  <2>1. older \in Blocks
    BY <1>1, OlderBlocks
  <2>2. Side(t.qty) \in {-1, 0, 1}
    BY <1>5, SideFacts DEF TrackerType
  <2> HIDE DEF older, t, exit
  <2> QED
    BY <2>1, <2>2, MarkedBlocks
<1>10. seen \in Seq(Trades) /\ closings' \in Seq(Trades)
  <2>1. OlderClosings \in Seq(Trades) /\ <<>> \in Seq(Trades)
    BY <1>1, OlderTrades
  <2> QED
    BY <1>1, <1>4, <2>1
<1>11. block' \in Blocks
  <2> HIDE DEF known, seen, why
  <2>1. BlockAfter(f, held, known) \in Blocks
    BY <1>9, ReleasedBlocks
  <2> QED
    BY <1>4, <1>10, <2>1, BlocksAfterFills
<1>12. reason' \in {"none", "stop", "other"}
  <2>1. why \in {"none", "stop", "other"}
    BY <1>1
  <2>2. after \in {"none", "stop", "other"}
    BY <2>1
  <2> HIDE DEF why, after, refused, net
  <2> QED
    BY <1>4, <2>2
<1>13. changes' \in 0 .. MaxChanges
  BY <1>1, <1>4
<1>14. aged \in SUBSET OrderIds
  BY DEF ReentryInv, ReentryTypeOK, ExchangeTypeOK, OrderType, Ids, WithGid
<1>15. ~refused => ~s.noNew /\ q \in Sized(s.want, net)
  BY <1>4
<1> HIDE DEF t, exit, known, refused, net, held
<1> QED
  BY <1>1, <1>4, <1>5, <1>7, <1>8, <1>9, <1>10, <1>11, <1>12, <1>13, <1>14, <1>15
     DEF s, older, held, net

-----------------------------------------------------------------------------
(* The invariant from its parts.                                           *)
LEMMA ReentryInvFrom ==
    ASSUME ExchangeOK', OnePerGroup(orders'), tracker' \in TrackerType,
           tracker'.qty # 0 => tracker'.stop > 0, target' \in Int, blocked' \in BOOLEAN,
           cap' \in Caps, changes' \in 0 .. MaxChanges, block' \in Blocks,
           closings' \in Seq(Trades), reason' \in {"none", "stop", "other"},
           reset' \in BOOLEAN
    PROVE  ReentryInv'
BY DEF ReentryInv, TickInv, ReentryTypeOK, TrackerType, ExchangeOK, Blocks, Trades

LEMMA ReentryStart == ReentryInit => ReentryInv /\ D!Init
<1> SUFFICES ASSUME ReentryInit PROVE ReentryInv /\ D!Init
  OBVIOUS
<1>1. Inv /\ D!Init
  BY InvInit DEF ReentryInit
<1>2. block \in [{-1, 1} -> -1 .. Cooldown]
  BY StrategyAssumption DEF ReentryInit, Unblocked
<1>3. closings \in Seq(Trades)
  BY DEF ReentryInit
<1> QED
  BY <1>1, <1>2, <1>3, InvFacts DEF ReentryInit, ReentryInv, ReentryTypeOK, Inv, TypeOK, Trades

(* A fill of either kind, seen by the exchange and by the ledger.          *)
LEMMA ReentryFills ==
    ASSUME ReentryInv, NEW g \in {"work", "stop"}, NEW stop \in BOOLEAN, FillIn(g),
           Closing(stop), changes' \in 0 .. MaxChanges,
           UNCHANGED <<tracker, target, blocked, cap, block, reason, reset>>
    PROVE  ReentryInv' /\ D!Next
<1>1. ExchangeOK' /\ OnePerGroup(orders')
  BY FillKeepsExchange DEF ReentryInv, TickInv
<1>2. D!Next
  BY FillFillsDesk DEF ReentryInv, TickInv, D!Next
<1>3. closings' \in Seq(Trades)
  BY <1>1, ClosedTrades DEF ExchangeOK, ExchangeTypeOK
<1>4. /\ tracker \in TrackerType /\ (tracker.qty # 0 => tracker.stop > 0) /\ target \in Int
      /\ blocked \in BOOLEAN /\ cap \in Caps /\ block \in Blocks
      /\ reason \in {"none", "stop", "other"} /\ reset \in BOOLEAN
  BY DEF ReentryInv, TickInv, ReentryTypeOK, Blocks
<1> QED
  BY <1>1, <1>2, <1>3, <1>4, ReentryInvFrom

(* Every step keeps the invariant and is a step of the desk or leaves it   *)
(* alone.                                                                  *)
LEMMA ReentryStep == ReentryInv /\ [ReentryNext]_reentryVars => ReentryInv' /\ [D!Next]_(D!vars)
<1> SUFFICES ASSUME ReentryInv, [ReentryNext]_reentryVars
             PROVE  ReentryInv' /\ [D!Next]_(D!vars)
  OBVIOUS
<1>1. /\ ExchangeOK /\ OnePerGroup(orders)
      /\ tracker \in TrackerType /\ (tracker.qty # 0 => tracker.stop > 0) /\ target \in Int
      /\ blocked \in BOOLEAN /\ cap \in Caps /\ cap \in Nat
      /\ changes \in 0 .. MaxChanges /\ MaxChanges \in Nat
      /\ block \in Blocks /\ closings \in Seq(Trades)
      /\ reason \in {"none", "stop", "other"} /\ reset \in BOOLEAN
  BY SyncLoopAssumption DEF ReentryInv, TickInv, ReentryTypeOK, Blocks, Trades
<1>2. CASE TradingTick
  <2>1. PICK f \in Features, t \in TrackerType, b \in Blocks, q \in Int,
             exit \in BOOLEAN, refused \in BOOLEAN, ok \in BOOLEAN, aged \in SUBSET OrderIds :
              /\ t.qty # 0 => t.stop > 0
              /\ tracker' = t /\ target' = q /\ blocked' = refused
              /\ UNCHANGED <<spot, margin, cap>>
              /\ changes' \in 0 .. MaxChanges
              /\ block' \in Blocks
              /\ closings' \in Seq(Trades)
              /\ reason' \in {"none", "stop", "other"}
              /\ reset' = ThesisReset(f)
              /\ Simultaneous(account) /\ ok => exit
              /\ Execute(TickPlan(account, t, q, exit, refused, cap, aged, ok))
    BY <1>2, TickDoes
  <2>2. ExchangeOK' /\ OnePerGroup(orders') /\ (D!Withdraw \/ D!Work \/ D!Protect)
    BY <1>1, <2>1, ExecuteFacts DEF ReentryInv
  <2>3. reset' \in BOOLEAN
    BY <2>1 DEF ThesisReset
  <2> QED
    BY <1>1, <2>1, <2>2, <2>3, ReentryInvFrom DEF D!Next
<1>3. CASE WorkingFills
  BY <1>1, <1>3, ReentryFills DEF WorkingFills, FillWorking
<1>4. CASE StopFills
  <2>1. changes' \in 0 .. MaxChanges
    BY <1>1, <1>4 DEF StopFills, StopTriggers
  <2> QED
    BY <1>4, <2>1, ReentryFills DEF StopFills, StopTriggers
<1>5. ASSUME UNCHANGED <<spot, margin, orders>> PROVE /\ ExchangeOK' /\ OnePerGroup(orders')
                                                      /\ UNCHANGED D!vars
  BY <1>1, <1>5 DEF ExchangeOK, ExchangeTypeOK, OnePerGroup, D!vars
<1>6. CASE StopIsHit
  <2>1. tracker' = [tracker EXCEPT !.hit = ~@]
    BY <1>6 DEF StopIsHit, PriceMoves
  <2>2. tracker' \in TrackerType /\ tracker'.qty = tracker.qty /\ tracker'.stop = tracker.stop
    BY <1>1, <2>1 DEF TrackerType
  <2>3. /\ UNCHANGED <<spot, margin, orders, target, blocked, cap, block, closings, reason, reset>>
        /\ changes' \in 0 .. MaxChanges
    BY <1>1, <1>6 DEF StopIsHit, PriceMoves
  <2> QED
    BY <1>1, <1>5, <2>2, <2>3, ReentryInvFrom
<1>7. CASE UNCHANGED reentryVars
  BY <1>1, <1>5, <1>7, ReentryInvFrom DEF reentryVars, vars
<1> QED
  BY <1>2, <1>3, <1>4, <1>6, <1>7 DEF ReentryNext

THEOREM ReentryInvariance == ReentrySpec => []ReentryInv
<1>1. ReentryInit => ReentryInv
  BY ReentryStart
<1>2. ReentryInv /\ [ReentryNext]_reentryVars => ReentryInv'
  BY ReentryStep
<1> QED
  BY <1>1, <1>2, PTL DEF ReentrySpec

(* The state of the tick, its block and its unread trades is what the      *)
(* declarations say, for every market and every cooldown.                  *)
THEOREM ReentryTypes == ReentrySpec => []ReentryTypeOK
<1>1. ReentryInv => ReentryTypeOK
  BY DEF ReentryInv
<1> QED
  BY <1>1, ReentryInvariance, PTL

(* With the strategy, the block and the ledger in the loop, every step is  *)
(* still one the abstract desk allows.                                     *)
THEOREM ReentryImplementsDesk == ReentrySpec => ImplementsDesk
<1>1. ReentryInit => D!Init
  BY ReentryStart
<1>2. ReentryInv /\ [ReentryNext]_reentryVars => [D!Next]_(D!vars)
  BY ReentryStep
<1> QED
  BY <1>1, <1>2, ReentryInvariance, PTL DEF ReentrySpec, ImplementsDesk, D!Spec

-----------------------------------------------------------------------------
(* What a step enters, a tick entered, and the tick found the side free.   *)
LEMMA EntersWhenReset ==
    ASSUME ReentryInv, [ReentryNext]_reentryVars, NEW side \in {-1, 1},
           block[side] # Unblocked, Entered(side)
    PROVE  Older(block[side]) = Cooldown /\ reset'
<1>1. PICK o \in orders' : o.id \notin Ids(orders) /\ Opens(o.venue, o.rem) /\ Side(o.rem) = side
  BY DEF Entered
<1>2. o \notin orders /\ o.id \in Ids(orders')
  BY <1>1 DEF Ids
<1>3. \A g : ~FillIn(g)
  <2>1. ASSUME NEW g, FillIn(g) PROVE FALSE
    BY <1>1, <1>2, <2>1, FilledKeepIds DEF ReentryInv, TickInv
  <2> QED
    BY <2>1
<1>4. TradingTick
  BY <1>2, <1>3 DEF ReentryNext, WorkingFills, FillWorking, StopFills, StopTriggers, StopIsHit,
                    PriceMoves, reentryVars, vars
<1>5. PICK f \in Features, t \in TrackerType, b \in Blocks, q \in Int,
           exit \in BOOLEAN, refused \in BOOLEAN, ok \in BOOLEAN, aged \in SUBSET OrderIds :
              /\ UNCHANGED <<spot, margin, cap>>
              /\ reset' = ThesisReset(f)
              /\ ~exit => b = [s \in {-1, 1} |-> Older(block[s])]
              /\ ~refused => /\ ~Signal(f, Side(NetXAUT(account)), b).noNew
                             /\ q \in Sized(Signal(f, Side(NetXAUT(account)), b).want,
                                            NetXAUT(account))
              /\ Simultaneous(account) /\ ok => exit
              /\ Execute(TickPlan(account, t, q, exit, refused, cap, aged, ok))
  BY <1>4, TickDoes
<1>6. /\ TickInv /\ cap \in Nat /\ NetXAUT(account) \in Int /\ block \in Blocks
  BY TickInvFacts, SyncLoopAssumption DEF ReentryInv, ReentryTypeOK, NetXAUT, Blocks
<1>7. PICK i \in TickPlan(account, t, q, exit, refused, cap, aged, ok).intent : Placed(o, i)
  BY <1>2, <1>5, <1>6, ExecuteFacts
<1>8. Opens(i.venue, i.amt) /\ Side(i.amt) = side
  BY <1>1, <1>7 DEF Placed, Live
<1>9. ~exit /\ ~refused /\ side * q > 0 /\ side * q > side * NetXAUT(account)
  BY <1>5, <1>6, <1>8, OpensTowardsTarget
<1>10. ~ReentryBlocked(b, side, f)
  BY <1>5, <1>6, <1>9, WantedSide
<1>11. Older(block[side]) = Cooldown /\ ThesisReset(f)
  BY <1>5, <1>6, <1>9, <1>10, ReleasedBlock
<1> QED
  BY <1>5, <1>11

(* "A stopped direction is blocked from immediate re-entry until both a    *)
(* cooldown and thesis-reset condition are satisfied": for every market,   *)
(* every threshold and every cooldown, no tick after the one that learned  *)
(* of a stop-out sends an order in its direction before both hold.         *)
THEOREM ReentryWaits == ReentrySpec => ReentryOnlyAfterReset
<1> DEFINE A == \A side \in {-1, 1} :
          block[side] # Unblocked /\ Entered(side) => Older(block[side]) = Cooldown /\ reset'
<1>1. ReentryInv /\ [ReentryNext]_reentryVars => [A]_reentryVars
  BY EntersWhenReset
<1> QED
  BY <1>1, ReentryInvariance, PTL DEF ReentrySpec, ReentryOnlyAfterReset
=============================================================================

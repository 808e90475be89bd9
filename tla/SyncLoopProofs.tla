--------------------------- MODULE SyncLoopProofs ---------------------------
(***************************************************************************)
(* What the trading loop guarantees for every grid, tolerance, step, cap,  *)
(* set of targets and stop prices, as long as each tick sees the account   *)
(* as it is: it implements the abstract desk, and with it the properties   *)
(* that module DeskProofs derives.                                         *)
(***************************************************************************)
EXTENDS SyncLoop, DeskProofs

-----------------------------------------------------------------------------
Inv ==
    /\ TypeOK
    /\ margin <= 0
    /\ tracker.qty # 0 => tracker.stop > 0
    /\ \A o \in orders : Wellformed(o)
    /\ OneOrderPerGroup

(* The part of it that a tick rests on, wherever its target comes from.    *)
TickInv ==
    /\ ExchangeOK
    /\ OnePerGroup(orders)
    /\ tracker \in TrackerType
    /\ tracker.qty # 0 => tracker.stop > 0

(* What it says of the account.                                            *)
LEMMA TickInvFacts ==
    ASSUME TickInv
    PROVE  /\ ExchangeOK /\ OnePerGroup(orders)
           /\ spot \in Nat /\ margin \in Int /\ margin <= 0 /\ orders \subseteq OrderType
           /\ account.spot = spot /\ account.margin = margin /\ account.orders = orders
           /\ tracker \in TrackerType /\ (tracker.qty # 0 => tracker.stop > 0)
  BY DEF TickInv, ExchangeOK, ExchangeTypeOK, account

LEMMA InvFacts ==
    ASSUME Inv
    PROVE  /\ TickInv /\ ExchangeOK /\ OnePerGroup(orders)
           /\ spot \in Nat /\ margin \in Int /\ margin <= 0 /\ orders \subseteq OrderType
           /\ account.spot = spot /\ account.margin = margin /\ account.orders = orders
           /\ tracker \in TrackerType /\ (tracker.qty # 0 => tracker.stop > 0)
           /\ target \in Int /\ cap \in Nat
  BY SyncLoopAssumption
     DEF Inv, TickInv, TypeOK, ExchangeOK, ExchangeTypeOK, OnePerGroup, OneOrderPerGroup,
         account, TrackerType

-----------------------------------------------------------------------------
(* What execute makes of an intent: the adapter let it through and no      *)
(* order of its group was live.                                            *)
Placed(o, i) ==
    /\ o = Live(FreshId, i)
    /\ ValidIntent(i, account)
    /\ IntentOK(i)
    /\ WithGid(orders, i.gid) = {}

(* Two orders at most are live, so there is an identifier for a third.     *)
LEMMA FreshIdFacts == TickInv => FreshId \in OrderIds \ Ids(orders)
<1> SUFFICES ASSUME TickInv PROVE \E id \in OrderIds : id \notin Ids(orders)
  BY DEF FreshId
<1>1. PICK i, j, k \in OrderIds : i # j /\ j # k /\ k # i
  BY SyncLoopAssumption
<1>2. SUFFICES ASSUME i \in Ids(orders), j \in Ids(orders), k \in Ids(orders)
               PROVE  FALSE
  BY <1>1
<1>3. PICK x, y, z \in orders : x.id = i /\ y.id = j /\ z.id = k
  BY <1>2 DEF Ids
<1>4. x.gid \in {"work", "stop"} /\ y.gid \in {"work", "stop"} /\ z.gid \in {"work", "stop"}
  BY <1>3 DEF TickInv, ExchangeOK, ExchangeTypeOK, OrderType
<1>5. x.gid = y.gid \/ y.gid = z.gid \/ z.gid = x.gid
  BY <1>4
<1> QED
  BY <1>1, <1>3, <1>5 DEF TickInv, OnePerGroup

(* Executing a plan removes orders, or adds one that passed the checks:    *)
(* for the desk a withdrawal, a working order or a stop.                   *)
LEMMA ExecuteFacts ==
    ASSUME TickInv, NEW t \in TrackerType, NEW q \in Int, NEW flatten, NEW b, NEW c \in Nat,
           NEW aged, NEW ok, Simultaneous(account) /\ ok => flatten,
           Execute(TickPlan(account, t, q, flatten, b, c, aged, ok)),
           UNCHANGED <<spot, margin>>
    PROVE  /\ \A o \in orders' :
                 \/ o \in orders
                 \/ \E i \in TickPlan(account, t, q, flatten, b, c, aged, ok).intent : Placed(o, i)
           /\ D!Withdraw \/ D!Work \/ D!Protect
           /\ ExchangeOK' /\ OnePerGroup(orders')
<1> DEFINE P == TickPlan(account, t, q, flatten, b, c, aged, ok)
<1>1. /\ ExchangeOK /\ OnePerGroup(orders) /\ spot \in Nat /\ margin \in Int /\ margin <= 0
      /\ orders \subseteq OrderType
      /\ account.spot = spot /\ account.margin = margin /\ account.orders = orders
  BY TickInvFacts
<1>2. orders' = IF P.cancel # {} THEN {o \in orders : o.id \notin P.cancel}
                ELSE orders \union {Live(FreshId, i) :
                        i \in {j \in P.intent : ValidIntent(j, account) /\ Accepts(j)}}
  BY DEF Execute
<1>3. CASE orders' \subseteq orders
  <2>1. D!Withdraw
    BY <1>1, <1>3, RemovalWithdraws
  <2>2. ExchangeOK' /\ OnePerGroup(orders')
    BY <1>1, <1>3 DEF ExchangeOK, ExchangeTypeOK, OnePerGroup
  <2> QED
    BY <2>1, <2>2, <1>3
<1>4. CASE ~(orders' \subseteq orders)
  <2>1. PICK i \in P.intent : ValidIntent(i, account)
    BY <1>2, <1>4
  <2>2. /\ IntentOK(i) /\ P.cancel = {} /\ (\A j \in P.intent : i = j)
        /\ WithGid(orders, i.gid) = {}
        /\ i.gid = "work" /\ ~Opens(i.venue, i.amt) => WithGid(orders, "stop") = {}
    <3>1. account.spot \in Nat /\ account.margin \in Int /\ account.margin <= 0
      BY <1>1
    <3>2. /\ IntentOK(i) /\ P.cancel = {} /\ (\A j \in P.intent : i = j)
          /\ WithGid(account.orders, i.gid) = {}
          /\ i.gid = "work" /\ ~Opens(i.venue, i.amt) => WithGid(account.orders, "stop") = {}
      BY <3>1, TickPlanFacts
    <3> QED
      BY <3>2, <1>1
  <2>3. orders' = orders \union {Live(FreshId, i)}
    <3>1. orders' = orders \union {Live(FreshId, j) :
                       j \in {k \in P.intent : ValidIntent(k, account) /\ Accepts(k)}}
      BY <1>2, <2>2
    <3>2. \A j \in P.intent : j = i
      BY <2>2
    <3> QED
      BY <1>4, <3>1, <3>2
  <2>4. /\ i \in [gid : {"work", "stop"}, venue : {"spot", "margin"}, amt : Int,
                   close : BOOLEAN, px : Nat]
        /\ i.amt # 0
        /\ i.venue = "margin" /\ i.amt > 0 => i.close
        /\ i.gid = "stop" => ~Opens(i.venue, i.amt)
    BY <2>2 DEF IntentOK
  <2>5. /\ i.venue = "spot" /\ i.amt > 0 => margin >= -Tol /\ spot - margin + i.amt <= Cap
        /\ i.venue = "margin" /\ i.amt < 0 => spot <= Tol /\ spot - margin - i.amt <= Cap
    <3>1. \A o \in account.orders : Wellformed(o)
      BY <1>1 DEF ExchangeOK
    <3>2. /\ account.spot \in Nat /\ account.margin \in Int /\ account.margin <= 0
          /\ account.orders \subseteq OrderType /\ WithGid(account.orders, i.gid) = {}
      BY <1>1, <2>2
    <3>3. /\ i.venue = "spot" /\ i.amt > 0 =>
                account.margin >= -Tol /\ account.spot - account.margin + i.amt <= Cap
          /\ i.venue = "margin" /\ i.amt < 0 =>
                account.spot <= Tol /\ account.spot - account.margin - i.amt <= Cap
      BY <2>1, <2>2, <3>1, <3>2, AcceptedOpening
    <3> QED
      BY <1>1, <3>3
  <2>6. (D!Work \/ D!Protect) /\ OnePerGroup(orders')
    BY <1>1, <2>2, <2>3, <2>5, PlacementWorksOrProtects
  <2>7. Live(FreshId, i) \in OrderType /\ Wellformed(Live(FreshId, i))
    <3>1. FreshId \in OrderIds
      BY FreshIdFacts
    <3> QED
      BY <3>1, <2>4 DEF Live, OrderType, Wellformed
  <2>8. ExchangeOK'
    BY <1>1, <2>3, <2>7 DEF ExchangeOK, ExchangeTypeOK
  <2>9. Placed(Live(FreshId, i), i)
    BY <2>1, <2>2 DEF Placed
  <2> QED
    BY <2>3, <2>6, <2>8, <2>9
<1> QED
  BY <1>3, <1>4

(* The tracker after a tick, and a position on two venues always exits.    *)
LEMMA TickObserves ==
    ASSUME TickInv, NEW level \in Levels
    PROVE  LET t == Observe(tracker, account, level)
           IN  /\ t \in TrackerType
               /\ t.qty # 0 => t.stop > 0
               /\ ~Simultaneous(account) => t.qty = IF spot > 0 THEN spot ELSE margin
               /\ Simultaneous(account) => ExitRequired(t, account)
<1>1. level \in Nat /\ level > 0
  BY SyncLoopAssumption
<1> QED
  BY <1>1, TickInvFacts, ObserveFacts DEF ExitRequired

-----------------------------------------------------------------------------
(* The start: an empty account.                                            *)
LEMMA InvInit == Init => Inv /\ D!Init
<1> SUFFICES ASSUME Init PROVE Inv /\ D!Init
  OBVIOUS
<1>1. TypeOK
  <2>1. ExchangeTypeOK
    BY DEF Init, ExchangeTypeOK
  <2>2. tracker \in [qty : Int, stop : Nat, hit : BOOLEAN, due : BOOLEAN]
    BY DEF Init, NoPosition
  <2>3. blocked \in BOOLEAN
    BY DEF Init
  <2>4. target \in Targets /\ cap \in Caps /\ changes \in 0 .. MaxChanges
    BY SyncLoopAssumption DEF Init
  <2> QED
    BY <2>1, <2>2, <2>3, <2>4 DEF TypeOK
<1>2. D!Init
  BY DEF Init, D!Init, D!Groups, D!None, BookOf, WithGid
<1> QED
  BY <1>1, <1>2 DEF Init, Inv, NoPosition, OneOrderPerGroup

(* Every step, fills and market moves included, keeps the invariant and is *)
(* a step of the desk or leaves it alone.                                  *)
LEMMA InvNext == Inv /\ [Next]_vars => Inv' /\ [D!Next]_(D!vars)
<1> SUFFICES ASSUME Inv, [Next]_vars PROVE Inv' /\ [D!Next]_(D!vars)
  OBVIOUS
<1>1. /\ ExchangeOK /\ OnePerGroup(orders)
      /\ tracker \in TrackerType /\ (tracker.qty # 0 => tracker.stop > 0)
      /\ target \in Int /\ cap \in Nat
  BY InvFacts
<1>2. /\ target \in Targets /\ blocked \in BOOLEAN /\ cap \in Caps
      /\ changes \in 0 .. MaxChanges /\ MaxChanges \in Nat
  BY SyncLoopAssumption DEF Inv, TypeOK
<1>3. ASSUME ExchangeOK', OnePerGroup(orders'), tracker' \in TrackerType,
             tracker'.qty # 0 => tracker'.stop > 0, target' \in Targets,
             blocked' \in BOOLEAN, cap' \in Caps, changes' \in 0 .. MaxChanges
      PROVE  Inv'
  BY <1>3 DEF Inv, TypeOK, TrackerType, ExchangeOK, OnePerGroup, OneOrderPerGroup
<1>4. CASE Tick
  <2>1. PICK level \in Levels, aged \in SUBSET Ids(WithGid(orders, "work")) :
          LET t == Observe(tracker, account, level)
          IN  /\ tracker' = t
              /\ Execute(TickPlan(account, t, target, ExitRequired(t, account), blocked,
                                  cap, aged, TRUE))
              /\ UNCHANGED <<spot, margin, target, blocked, cap, changes>>
    BY <1>4 DEF Tick
  <2>2. /\ tracker' \in TrackerType /\ (tracker'.qty # 0 => tracker'.stop > 0)
        /\ Simultaneous(account) => ExitRequired(tracker', account)
    BY <2>1, InvFacts, TickObserves
  <2>3. /\ ExchangeOK' /\ OnePerGroup(orders')
        /\ D!Withdraw \/ D!Work \/ D!Protect
    BY <1>1, <2>1, <2>2, InvFacts, ExecuteFacts
  <2> QED
    BY <1>2, <1>3, <2>1, <2>2, <2>3 DEF D!Next
<1>5. CASE TickBadBook
  <2>1. /\ Execute(TickPlan(account, tracker, target, FALSE, TRUE, cap, {}, FALSE))
        /\ UNCHANGED <<spot, margin, tracker, target, blocked, cap, changes>>
    BY <1>5 DEF TickBadBook
  <2>2. /\ ExchangeOK' /\ OnePerGroup(orders')
        /\ D!Withdraw \/ D!Work \/ D!Protect
    BY <1>1, <2>1, InvFacts, ExecuteFacts
  <2> QED
    BY <1>1, <1>2, <1>3, <2>1, <2>2 DEF D!Next
<1>6. ASSUME NEW g \in {"work", "stop"}, FillIn(g),
             UNCHANGED <<tracker, target, blocked, cap>>, changes' \in 0 .. MaxChanges
      PROVE  Inv' /\ D!Next
  <2>1. ExchangeOK' /\ OnePerGroup(orders')
    BY <1>1, <1>6, FillKeepsExchange
  <2>2. D!Filled(g)
    BY <1>1, <1>6, FillFillsDesk
  <2> QED
    BY <1>1, <1>2, <1>3, <1>6, <2>1, <2>2 DEF D!Next
<1>7. CASE FillWorking
  BY <1>2, <1>6, <1>7 DEF FillWorking
<1>8. CASE StopTriggers
  <2>1. changes' \in 0 .. MaxChanges
    BY <1>2, <1>8 DEF StopTriggers
  <2> QED
    BY <1>6, <1>8, <2>1 DEF StopTriggers
<1>9. ASSUME UNCHANGED <<spot, margin, orders>>, tracker' \in TrackerType,
             tracker'.qty # 0 => tracker'.stop > 0, target' \in Targets,
             blocked' \in BOOLEAN, cap' \in Caps, changes' \in 0 .. MaxChanges
      PROVE  Inv' /\ UNCHANGED D!vars
  <2>1. ExchangeOK' /\ OnePerGroup(orders')
    BY <1>1, <1>9 DEF ExchangeOK, ExchangeTypeOK, OnePerGroup
  <2>2. UNCHANGED D!vars
    BY <1>9 DEF D!vars
  <2> QED
    BY <1>3, <1>9, <2>1, <2>2
<1>10. CASE Decide
  BY <1>1, <1>2, <1>9, <1>10 DEF Decide
<1>11. CASE LiquidityMoves
  BY <1>1, <1>2, <1>9, <1>11 DEF LiquidityMoves
<1>12. CASE PriceMoves
  <2>1. tracker' = [tracker EXCEPT !.hit = ~@]
    BY <1>12 DEF PriceMoves
  <2>2. tracker' \in TrackerType /\ tracker'.qty = tracker.qty /\ tracker'.stop = tracker.stop
    BY <1>1, <2>1 DEF TrackerType
  <2> QED
    BY <1>1, <1>2, <1>9, <1>12, <2>2 DEF PriceMoves
<1>13. CASE HoldingTimePasses
  <2>1. tracker' = [tracker EXCEPT !.due = TRUE]
    BY <1>13 DEF HoldingTimePasses
  <2>2. tracker' \in TrackerType /\ tracker'.qty = tracker.qty /\ tracker'.stop = tracker.stop
    BY <1>1, <2>1 DEF TrackerType
  <2> QED
    BY <1>1, <1>2, <1>9, <1>13, <2>2 DEF HoldingTimePasses
<1>14. CASE UNCHANGED vars
  BY <1>1, <1>2, <1>9, <1>14 DEF vars
<1> QED
  BY <1>4, <1>5, <1>7, <1>8, <1>10, <1>11, <1>12, <1>13, <1>14 DEF Next

(* Inv is inductive: live orders are well formed and one of a group.       *)
THEOREM Invariance == Spec => []Inv
<1>1. Init => Inv
  BY InvInit
<1>2. Inv /\ [Next]_vars => Inv'
  BY InvNext
<1> QED
  BY <1>1, <1>2, PTL DEF Spec

(* The loop's state is what the declarations say, live orders included.    *)
THEOREM TypeCorrect == Spec => []TypeOK
<1>1. Inv => TypeOK
  BY DEF Inv
<1> QED
  BY <1>1, Invariance, PTL

(* Whatever the strategy, the market and the exchange do, every step of    *)
(* the loop is one the abstract desk allows.                               *)
THEOREM LoopImplementsDesk == Spec => ImplementsDesk
<1>1. Init => D!Init
  BY InvInit
<1>2. Inv /\ [Next]_vars => [D!Next]_(D!vars)
  BY InvNext
<1> QED
  BY <1>1, <1>2, Invariance, PTL DEF Spec, ImplementsDesk, D!Spec

(* Spot long and margin short are never held together beyond the tolerance, *)
(* because no desk ever does.                                               *)
THEOREM SpotAndMarginApart == Spec => []OneVenue
<1>1. D!OneSided => OneVenue
  BY DEF D!OneSided, OneVenue
<1> QED
  BY <1>1, LoopImplementsDesk, DeskIsSafe, PTL DEF ImplementsDesk

(* There is never a second working order, nor a second stop.               *)
THEOREM OrdersApart == Spec => []OneOrderPerGroup
<1>1. Inv => OneOrderPerGroup
  BY DEF Inv
<1> QED
  BY <1>1, Invariance, PTL

-----------------------------------------------------------------------------
(* Growth.  A fill brings no new order.                                    *)
LEMMA FilledKeepIds ==
    ASSUME ExchangeOK, NEW g, FillIn(g)
    PROVE  Ids(orders') \subseteq Ids(orders)
<1>1. \A p \in orders' : \E o \in orders : p.id = o.id
  BY FilledOrders DEF SameButSmaller
<1> QED
  BY <1>1 DEF Ids

(* A tick that plans an opening order does so over a protected position.   *)
LEMMA TickGrowthIsProtected ==
    ASSUME Inv, ProtectiveStops, NEW level \in Levels, NEW aged,
           NEW t, t = Observe(tracker, account, level),
           NEW i \in TickPlan(account, t, target, ExitRequired(t, account), blocked, cap,
                               aged, TRUE).intent,
           Opens(i.venue, i.amt)
    PROVE  \/ Abs(t.qty) <= Tol
           \/ RoundDown(Abs(t.qty)) < MinQty
           \/ \E s \in orders : Protects(s, t)
<1> DEFINE In(r) == PlannerInput(account, t, r, cap, aged, TRUE)
<1>1. /\ spot \in Nat /\ margin \in Int /\ margin <= 0 /\ target \in Int /\ cap \in Nat
      /\ t \in TrackerType /\ (t.qty # 0 => t.stop > 0)
      /\ (~Simultaneous(account) => t.qty = IF spot > 0 THEN spot ELSE margin)
  BY InvFacts, TickObserves
<1>2. \A r \in Int : InputOK(In(r)) /\ In(r).target = r
  BY <1>1 DEF InputOK, PlannerInput, account, TrackerType
<1>3. NetXAUT(account) \in Int
  BY <1>1 DEF NetXAUT, account
<1>4. \/ ExitRequired(t, account) /\ i \in Plan(In(0)).intent
      \/ ~ExitRequired(t, account) /\ \E r \in Int : i \in Plan(In(r)).intent
  BY <1>1, <1>3 DEF TickPlan, CancelOnly
<1>5. ~ExitRequired(t, account)
  <2>1. InputOK(In(0)) /\ In(0).target = 0
    BY <1>1 DEF InputOK, PlannerInput, account, TrackerType
  <2>2. i \notin Plan(In(0)).intent
    BY <2>1, FlattenNeverOpens
  <2> QED
    BY <1>4, <2>2
<1>6. PICK r \in Int : i \in Plan(In(r)).intent
  BY <1>4, <1>5
<1>7. Tracked(In(r))
  <2>1. ~(spot > 0 /\ margin < 0) /\ t.qty = IF spot > 0 THEN spot ELSE margin
    BY <1>1, <1>5 DEF ExitRequired, Simultaneous, account
  <2> QED
    BY <1>1, <2>1 DEF Tracked, PlannerInput, account
<1>8. \/ Abs(t.qty) <= Tol
      \/ RoundDown(Abs(t.qty)) < MinQty
      \/ /\ WithGid(orders, "stop") # {}
         /\ \A o \in WithGid(orders, "stop") : ~StopMismatch(o, In(r))
  <2>1. In(r).qty = t.qty /\ In(r).orders = orders
    BY DEF PlannerInput, account
  <2> QED
    BY <1>2, <1>6, <1>7, <2>1, GrowthIsProtected
<1>9. ASSUME NEW s \in WithGid(orders, "stop"), ~StopMismatch(s, In(r))
      PROVE  s \in orders /\ Protects(s, t)
  <2>1. s \in orders /\ s.gid = "stop" /\ s.rem \in Int /\ s.px \in Int
    BY DEF WithGid, Inv, TypeOK, ExchangeTypeOK, OrderType
  <2>2. /\ ~(Abs(Abs(s.rem) - Abs(t.qty)) > 2 * Step)
        /\ ~(2 * Abs(s.px - t.stop) > 3 * PriceStep)
    BY <1>9 DEF StopMismatch, PlannerInput
  <2>3. /\ Abs(Abs(s.rem) - Abs(t.qty)) \in Int /\ Abs(s.px - t.stop) \in Int
    BY <1>1, <2>1 DEF Abs, TrackerType
  <2> QED
    BY <2>1, <2>2, <2>3, PlannerAssumption DEF Protects
<1> QED
  BY <1>8, <1>9

(* "Any partial entry fill is protected before the planner waits for or    *)
(* submits another child entry": no tick adds an opening order to a        *)
(* position that could carry a stop and has none at its size and price.    *)
THEOREM GrowthProtected == Spec => NoUnprotectedGrowth
<1> DEFINE A == \A o \in orders' :
          ProtectiveStops /\ o.id \notin Ids(orders) /\ Opens(o.venue, o.rem) =>
              \/ Abs(tracker'.qty) <= Tol
              \/ RoundDown(Abs(tracker'.qty)) < MinQty
              \/ \E s \in orders : Protects(s, tracker')
<1>1. ASSUME Inv, [Next]_vars PROVE A
  <2>1. SUFFICES ASSUME NEW o \in orders', ProtectiveStops, o.id \notin Ids(orders),
                        Opens(o.venue, o.rem)
                 PROVE  \/ Abs(tracker'.qty) <= Tol
                        \/ RoundDown(Abs(tracker'.qty)) < MinQty
                        \/ \E s \in orders : Protects(s, tracker')
    OBVIOUS
  <2>2. o \notin orders /\ o.id \in Ids(orders')
    BY <2>1 DEF Ids
  <2>3. CASE Tick
    <3>1. PICK level \in Levels, aged \in SUBSET Ids(WithGid(orders, "work")) :
            LET t == Observe(tracker, account, level)
            IN  /\ tracker' = t
                /\ Execute(TickPlan(account, t, target, ExitRequired(t, account), blocked,
                                    cap, aged, TRUE))
      BY <2>3 DEF Tick
    <3>2. /\ tracker' \in TrackerType /\ target \in Int /\ cap \in Nat
          /\ Simultaneous(account) => ExitRequired(tracker', account)
          /\ UNCHANGED <<spot, margin>>
      BY <1>1, <2>3, <3>1, InvFacts, TickObserves DEF Tick
    <3>3. \E i \in TickPlan(account, tracker', target, ExitRequired(tracker', account),
                             blocked, cap, aged, TRUE).intent : Placed(o, i)
      BY <1>1, <2>2, <3>1, <3>2, InvFacts, ExecuteFacts
    <3>4. PICK i \in TickPlan(account, tracker', target, ExitRequired(tracker', account),
                              blocked, cap, aged, TRUE).intent : Placed(o, i)
      BY <3>3
    <3>5. Opens(i.venue, i.amt)
      BY <2>1, <3>4 DEF Placed, Live
    <3> QED
      BY <1>1, <2>1, <3>1, <3>4, <3>5, TickGrowthIsProtected
  <2>4. CASE TickBadBook
    <3>1. TickPlan(account, tracker, target, FALSE, TRUE, cap, {}, FALSE).intent = {}
      BY DEF TickPlan, Plan, PlannerInput, CancelOnly, Nothing
    <3> QED
      BY <2>2, <2>4, <3>1 DEF TickBadBook, Execute
  <2>5. CASE FillWorking
    BY <1>1, <2>1, <2>2, <2>5, InvFacts, FilledKeepIds DEF FillWorking
  <2>6. CASE StopTriggers
    BY <1>1, <2>1, <2>2, <2>6, InvFacts, FilledKeepIds DEF StopTriggers
  <2>7. CASE UNCHANGED orders
    BY <2>2, <2>7
  <2> QED
    BY <1>1, <2>3, <2>4, <2>5, <2>6, <2>7
       DEF Next, Decide, LiquidityMoves, PriceMoves, HoldingTimePasses, vars
<1>2. Inv /\ [Next]_vars => [A]_vars
  BY <1>1
<1> QED
  BY <1>2, Invariance, PTL DEF Spec, NoUnprotectedGrowth

-----------------------------------------------------------------------------
(* The planner and the adapter.  Their checks agree as long as a target    *)
(* leaves room for dust on the other venue, which the adapter counts too.  *)
Roomy == \A q \in Targets : Abs(q) + Tol <= Cap

(* An order that opens is within the target, and the target within the cap. *)
LEMMA OpeningFits ==
    ASSUME Inv, Roomy, NEW in, InputOK(in), in.target \in Targets,
           in.spot = spot, in.margin = margin,
           NEW i, IntentOK(i), TradeOK(in, i), i.gid = "work",
           Opens(i.venue, i.amt), WithGid(orders, "work") = {}
    PROVE  ValidIntent(i, account)
<1>1. /\ spot \in Nat /\ margin \in Int /\ margin <= 0
      /\ account.spot = spot /\ account.margin = margin /\ account.orders = orders
  BY InvFacts
<1>2. in.target \in Int /\ i.amt \in Int /\ Tol \in Nat /\ Cap \in Nat
  BY PlannerAssumption, EngineAssumption DEF IntentOK, InputOK
<1>3. Long(in) = spot /\ Short(in) = -margin
  BY <1>1 DEF Long, Short, Greater, Lesser, Abs
<1>4. {o \in account.orders : Opens(o.venue, o.rem)} = {}
  BY <1>1 DEF WithGid, Inv, Wellformed, TypeOK, ExchangeTypeOK, OrderType
<1>5. PendingOpening(account) = 0
  BY <1>4, PendingFacts
<1>6. i \notin Protective(in).intent
  BY StopFacts
<1>7. Abs(in.target) + Tol <= Cap
  BY DEF Roomy
<1>8. CASE i.venue = "spot"
  <2>0. i.amt > 0
    BY <1>8 DEF Opens
  <2>1. i.amt > 0 /\ -margin <= Tol /\ spot + i.amt <= in.target
    BY <1>1, <1>2, <1>3, <1>6, <1>8, <2>0 DEF TradeOK
  <2>2. Abs(spot) = spot /\ Abs(margin) = -margin /\ Abs(i.amt) = i.amt /\ Abs(in.target) = in.target
    BY <1>1, <1>2, <2>1 DEF Abs
  <2>3. spot + -margin + 0 + i.amt <= Cap /\ margin >= -Tol
    BY <1>1, <1>2, <1>7, <2>1, <2>2
  <2> QED
    BY <1>1, <1>5, <1>8, <2>1, <2>2, <2>3 DEF ValidIntent, ValidVenueSide
<1>9. CASE i.venue = "margin"
  <2>0. i.amt < 0
    BY <1>9 DEF Opens
  <2>1. i.amt < 0 /\ ~i.close /\ spot <= Tol /\ -margin - i.amt <= -in.target
    BY <1>1, <1>2, <1>3, <1>6, <1>9, <2>0 DEF TradeOK
  <2>2. /\ Abs(spot) = spot /\ Abs(margin) = -margin /\ Abs(i.amt) = -i.amt
        /\ Abs(in.target) = -in.target
    BY <1>1, <1>2, <2>1 DEF Abs
  <2>3. spot + -margin + 0 + -i.amt <= Cap
    BY <1>1, <1>2, <1>7, <2>1, <2>2
  <2> QED
    BY <1>1, <1>5, <1>9, <2>1, <2>2, <2>3 DEF ValidIntent, ValidVenueSide
<1> QED
  BY <1>8, <1>9 DEF IntentOK

(* A stop, or an order that closes, asks for no more than is held.         *)
LEMMA ClosingFits ==
    ASSUME Inv, NEW in, InputOK(in), in.spot = spot, in.margin = margin,
           NEW i, IntentOK(i), ~Opens(i.venue, i.amt),
           \/ /\ i \in Protective(in).intent
              /\ in.qty = IF spot > 0 THEN spot ELSE margin
           \/ TradeOK(in, i) /\ i.gid = "work"
    PROVE  ValidIntent(i, account)
<1>1. /\ spot \in Nat /\ margin \in Int /\ margin <= 0
      /\ account.spot = spot /\ account.margin = margin
      /\ Step \in Nat /\ i.amt \in Int /\ i.amt # 0
      /\ (i.venue = "spot" /\ i.amt < 0) \/ (i.venue = "margin" /\ i.amt > 0 /\ i.close)
  BY InvFacts, PlannerAssumption DEF IntentOK, Opens
<1>2. Long(in) = spot /\ Short(in) = -margin /\ Short(account) = -margin
  BY <1>1 DEF Long, Short, Greater, Lesser, Abs
<1>3. /\ i.venue = "spot" => -i.amt <= spot
      /\ i.venue = "margin" => i.amt <= -margin
  <2>1. CASE i \in Protective(in).intent /\ in.qty = IF spot > 0 THEN spot ELSE margin
    <3>1. i = StopIntent(in) /\ Abs(i.amt) <= Abs(in.qty)
      BY <2>1, StopFacts
    <3>2. (i.venue = "margin") = (in.qty < 0) /\ (i.venue = "spot") = ~(in.qty < 0)
      BY <3>1 DEF StopIntent
    <3> QED
      BY <1>1, <2>1, <3>1, <3>2 DEF Abs
  <2>2. CASE TradeOK(in, i) /\ i.gid = "work"
    <3>1. i \notin Protective(in).intent
      BY <2>2, StopFacts
    <3> QED
      BY <1>1, <1>2, <2>2, <3>1 DEF TradeOK
  <2> QED
    BY <2>1, <2>2
<1> QED
  BY <1>1, <1>2, <1>3 DEF ValidIntent, ValidVenueSide

(* Whatever a tick may plan from an account, the adapter lets through.     *)
LEMMA TickPassesGuard ==
    ASSUME Inv, Roomy, NEW level \in Levels, NEW c \in Caps,
           NEW t, t = Observe(tracker, account, level),
           NEW i \in TickPlan(account, t, target, ExitRequired(t, account), blocked, c,
                               {}, TRUE).intent
    PROVE  ValidIntent(i, account)
<1> DEFINE In(r) == PlannerInput(account, t, r, c, {}, TRUE)
<1>1. /\ spot \in Nat /\ margin \in Int /\ margin <= 0 /\ target \in Int /\ c \in Nat
      /\ account.spot = spot /\ account.margin = margin /\ account.orders = orders
      /\ t \in TrackerType
      /\ (~Simultaneous(account) => t.qty = IF spot > 0 THEN spot ELSE margin)
      /\ (Simultaneous(account) => ExitRequired(t, account))
  BY InvFacts, TickObserves, SyncLoopAssumption
<1>2. /\ IntentOK(i) /\ WithGid(orders, i.gid) = {}
      /\ ExitRequired(t, account) \/ blocked => ~Opens(i.venue, i.amt)
  BY <1>1, TickPlanFacts
<1>3. ASSUME NEW r \in Int
      PROVE  /\ InputOK(In(r)) /\ In(r).target = r
             /\ In(r).spot = spot /\ In(r).margin = margin /\ In(r).qty = t.qty
  BY <1>1 DEF InputOK, PlannerInput, TrackerType
<1> HIDE DEF In
<1>4. CASE ExitRequired(t, account)
  <2>1. i \in Plan(In(0)).intent
    BY <1>4 DEF TickPlan, In
  <2>2. TradeOK(In(0), i) /\ i.gid = "work"
    BY <1>3, <2>1, FlattenPlacesNoStop
  <2> QED
    BY <1>2, <1>3, <1>4, <2>2, ClosingFits
<1>5. CASE ~ExitRequired(t, account)
  <2>1. t.qty = IF spot > 0 THEN spot ELSE margin
    BY <1>1, <1>5
  <2>2. PICK r \in Int : i \in Plan(In(r)).intent /\ (~blocked => r = target)
    <3>1. NetXAUT(account) \in Int
      BY <1>1 DEF NetXAUT
    <3> QED
      BY <1>1, <1>5, <3>1 DEF TickPlan, CancelOnly, In
  <2>3. i \in Protective(In(r)).intent \/ TradeOK(In(r), i)
    BY <1>3, <2>2, PlannedIntents
  <2>4. CASE i \in Protective(In(r)).intent
    <3>1. ~Opens(i.venue, i.amt)
      BY <1>2, <1>3, <2>4, StopFacts DEF IntentOK
    <3> QED
      BY <1>2, <1>3, <2>1, <2>4, <3>1, ClosingFits
  <2>5. CASE TradeOK(In(r), i) /\ i \notin Protective(In(r)).intent
    <3>1. i.gid = "work"
      BY <2>5 DEF TradeOK
    <3>2. CASE ~Opens(i.venue, i.amt)
      BY <1>2, <1>3, <2>5, <3>1, <3>2, ClosingFits
    <3>3. CASE Opens(i.venue, i.amt)
      <4>1. r = target /\ target \in Targets
        BY <1>2, <2>2, <3>3 DEF Inv, TypeOK
      <4> QED
        BY <1>2, <1>3, <2>5, <3>1, <3>3, <4>1, OpeningFits
    <3> QED
      BY <3>2, <3>3
  <2> QED
    BY <2>3, <2>4, <2>5
<1> QED
  BY <1>4, <1>5

(* Planner and adapter agree: as long as a target leaves room for dust on  *)
(* the other venue, no tick plans an order that the adapter refuses.       *)
THEOREM PlansPassTheGuard ==
    ASSUME Roomy
    PROVE  Spec => []PlanPassesGuard
<1>1. Roomy /\ Inv => PlanPassesGuard
  BY TickPassesGuard DEF PlanPassesGuard
<1>2. Inv => PlanPassesGuard
  BY <1>1
<1> QED
  BY <1>2, Invariance, PTL
=============================================================================

----------------------------- MODULE BotProofs -----------------------------
(***************************************************************************)
(* What the asynchronous loop guarantees for every grid, cap, set of       *)
(* targets, snapshot life and number of crashes.  That no entry follows a  *)
(* halt needs no assumption on the faults; the rest is for consistent      *)
(* account reads and errors that mean that nothing happened.               *)
(***************************************************************************)
EXTENDS Bot, DeskProofs

IntentType ==
    [gid : {"work", "stop"}, venue : {"spot", "margin"}, amt : Int, close : BOOLEAN, px : Nat]

(* The account the loop believes in is one it can have seen.               *)
SnapOK ==
    /\ snap \in [spot : Nat, margin : Int, orders : SUBSET OrderType]
    /\ snap.margin <= 0
    /\ \A o \in snap.orders : Wellformed(o)

(* What is left to submit fits the snapshot the tick decided on, and opens *)
(* nothing once a halt has latched.                                        *)
PlanOK ==
    /\ plan \in [cancel : SUBSET OrderIds, intent : SUBSET IntentType]
    /\ \A i \in plan.intent :
          /\ pc = "execute"
          /\ IntentOK(i)
          /\ WithGid(snap.orders, i.gid) = {}
          /\ i.gid = "work" /\ ~Opens(i.venue, i.amt) => WithGid(snap.orders, "stop") = {}
          /\ halted => ~Opens(i.venue, i.amt)

Stages == {"idle", "wallets", "positions", "orders", "decide", "execute", "down"}

LoopOK ==
    /\ pc \in Stages
    /\ uses \in 0 .. MaxUses
    /\ pc = "decide" => uses > 0
    /\ recent \in BOOLEAN
    /\ tracker \in TrackerType
    /\ tracker.qty # 0 => tracker.stop > 0
    /\ halted \in BOOLEAN
    /\ stops \in 0 .. MaxStops

Inv == ExchangeOK /\ SnapOK /\ PlanOK /\ LoopOK

-----------------------------------------------------------------------------
(* A plan only cancels orders that its account shows.                      *)
LEMMA CancelsSeen ==
    ASSUME NEW a, NEW t, NEW target, NEW flatten, NEW blocked, NEW cap, NEW aged, NEW ok
    PROVE  TickPlan(a, t, target, flatten, blocked, cap, aged, ok).cancel \subseteq Ids(a.orders)
<1>1. ASSUME NEW in, NEW s, s \subseteq in.orders
      PROVE  CancelOnly(s).cancel \subseteq Ids(in.orders)
  BY <1>1 DEF CancelOnly, Ids
<1>2. ASSUME NEW in
      PROVE  /\ WithGid(in.orders, "stop") \subseteq in.orders
             /\ StaleWorking(in) \subseteq in.orders
  BY DEF WithGid, StaleWorking
<1>3. ASSUME NEW in, NEW x
      PROVE  /\ Nothing.cancel \subseteq Ids(in.orders)
             /\ Submit(x).cancel \subseteq Ids(in.orders)
  BY DEF Nothing, Submit
<1>4. ASSUME NEW in PROVE Protective(in).cancel \subseteq Ids(in.orders)
  BY <1>1, <1>2, <1>3 DEF Protective
<1>5. ASSUME NEW in, NEW venue, NEW sign, NEW q, NEW close
      PROVE  Child(in, venue, sign, q, close).cancel \subseteq Ids(in.orders)
  BY <1>3 DEF Child
<1>6. ASSUME NEW in PROVE Trade(in).cancel \subseteq Ids(in.orders)
  <2>1. \A q : /\ SpotBuy(in, q).cancel \subseteq Ids(in.orders)
               /\ SpotSell(in, q).cancel \subseteq Ids(in.orders)
               /\ MarginSell(in, q).cancel \subseteq Ids(in.orders)
               /\ MarginClose(in, q).cancel \subseteq Ids(in.orders)
    BY <1>5 DEF SpotBuy, SpotSell, MarginSell, MarginClose
  <2>2. /\ Flatten(in).cancel \subseteq Ids(in.orders)
        /\ AdjustLong(in).cancel \subseteq Ids(in.orders)
        /\ AdjustShort(in).cancel \subseteq Ids(in.orders)
    BY <2>1, <1>3, <1>4 DEF Flatten, AdjustLong, AdjustShort
  <2> QED
    BY <2>1, <2>2 DEF Trade
<1>7. ASSUME NEW in PROVE Plan(in).cancel \subseteq Ids(in.orders)
  BY <1>1, <1>2, <1>3, <1>4, <1>6 DEF Plan
<1>8. \A r : PlannerInput(a, t, r, cap, aged, ok).orders = a.orders
  BY DEF PlannerInput
<1>9. CancelOnly(WithGid(a.orders, "work")).cancel \subseteq Ids(a.orders)
  BY DEF CancelOnly, Ids, WithGid
<1>10. \A r : Plan(PlannerInput(a, t, r, cap, aged, ok)).cancel \subseteq Ids(a.orders)
  BY <1>7, <1>8
<1> QED
  BY <1>9, <1>10 DEF TickPlan

(* What the invariant says, part by part.                                  *)
LEMMA InvFacts ==
    ASSUME Inv
    PROVE  /\ spot \in Nat /\ margin \in Int /\ margin <= 0 /\ orders \subseteq OrderType
           /\ snap.spot \in Nat /\ snap.margin \in Int /\ snap.margin <= 0
           /\ snap.orders \subseteq OrderType
           /\ Ids(snap.orders) \subseteq OrderIds
  BY DEF Inv, ExchangeOK, ExchangeTypeOK, SnapOK, Ids, OrderType

(* A decision leaves a plan that fits the snapshot.                        *)
LEMMA DecisionFacts ==
    ASSUME Inv, NEW t \in TrackerType, NEW target \in Int, NEW exit, NEW blocked,
           NEW cap \in Nat, NEW aged, NEW ok, Simultaneous(snap) /\ ok => exit,
           halted' \in BOOLEAN, snap' = snap, pc' = "execute",
           plan' = TickBranch(t, target, exit, blocked, cap, aged, ok)
    PROVE  PlanOK'
<1> DEFINE flatten == exit \/ (halted' /\ FlattenOnHardHalt)
           held == blocked \/ halted' \/ snap.margin > 0 \/ WorstCase(target) > Cap
           P == TickPlan(snap, t, target, flatten, held, cap, aged, ok)
<1>1. plan' = P
  BY DEF TickBranch
<1>2. P.cancel \subseteq OrderIds
  BY CancelsSeen, InvFacts
<1>3. ASSUME NEW i \in P.intent
      PROVE  /\ IntentOK(i) /\ WithGid(snap.orders, i.gid) = {}
             /\ i.gid = "work" /\ ~Opens(i.venue, i.amt) => WithGid(snap.orders, "stop") = {}
             /\ flatten \/ held => ~Opens(i.venue, i.amt)
  <2>1. snap.spot \in Nat /\ snap.margin \in Int /\ snap.margin <= 0
    BY InvFacts
  <2>2. Simultaneous(snap) /\ ok => flatten
    OBVIOUS
  <2> HIDE DEF flatten, held
  <2> QED
    BY <1>3, <2>1, <2>2, TickPlanFacts
<1>4. \A i \in P.intent : i \in IntentType /\ (halted' => ~Opens(i.venue, i.amt))
  BY <1>3 DEF IntentOK, IntentType
<1>5. P \in [cancel : SUBSET OrderIds, intent : SUBSET IntentType]
  <2>1. P = [cancel |-> P.cancel, intent |-> P.intent]
    BY DEF TickPlan, Plan, Nothing, CancelOnly, Submit, Protective, Trade, Flatten, AdjustLong,
           AdjustShort, SpotBuy, SpotSell, MarginSell, MarginClose, Child
  <2> HIDE DEF P
  <2> QED
    BY <1>2, <1>4, <2>1
<1> HIDE DEF P
<1> QED
  BY <1>1, <1>3, <1>4, <1>5 DEF PlanOK

(* Forgetting the account is always a valid account.                       *)
LEMMA NoAccountFacts ==
    /\ NoAccount \in [spot : Nat, margin : Int, orders : SUBSET OrderType]
    /\ NoAccount.margin = 0 /\ NoAccount.orders = {}
    /\ Nothing \in [cancel : SUBSET OrderIds, intent : SUBSET IntentType]
    /\ Nothing.intent = {}
  BY DEF NoAccount, Nothing

(* A tick that ends forgets its plan, and its account when it is used up.  *)
LEMMA EndTickFacts ==
    ASSUME Inv, NEW used \in 0 .. MaxUses, NEW submitted \in BOOLEAN, EndTick(used, submitted),
           UNCHANGED <<tracker, halted, stops>>
    PROVE  SnapOK' /\ PlanOK' /\ LoopOK'
<1>1. /\ pc' = "idle" /\ plan' = Nothing /\ uses' = used /\ recent' = submitted
      /\ snap' = NoAccount \/ snap' = snap
  BY DEF EndTick
<1>2. SnapOK'
  BY <1>1, NoAccountFacts DEF SnapOK, Inv
<1>3. PlanOK'
  BY <1>1, NoAccountFacts DEF PlanOK
<1>4. LoopOK'
  BY <1>1 DEF LoopOK, Inv, Stages
<1> QED
  BY <1>2, <1>3, <1>4

(* Removing orders keeps the exchange well formed.                         *)
LEMMA RemovalKeeps ==
    ASSUME ExchangeOK, orders' \subseteq orders, UNCHANGED <<spot, margin>>
    PROVE  ExchangeOK'
  BY DEF ExchangeOK, ExchangeTypeOK

(* So does an order that reaches the book.                                 *)
LEMMA LandingKeeps ==
    ASSUME Inv, NEW i \in plan.intent, Lands(i), UNCHANGED <<spot, margin>>
    PROVE  /\ ExchangeOK'
           /\ orders' = orders \union {Live(FreshId, i)}
           /\ Live(FreshId, i).venue = i.venue /\ Live(FreshId, i).rem = i.amt
           /\ Live(FreshId, i).gid = i.gid
<1>1. IntentOK(i)
  BY DEF Inv, PlanOK
<1>2. FreshId \in OrderIds
  BY DEF Lands, FreshId, FreeIds
<1>3. Live(FreshId, i) = [id |-> FreshId, gid |-> i.gid, venue |-> i.venue, rem |-> i.amt,
                          px |-> i.px, close |-> i.close]
  BY DEF Live
<1>4. Live(FreshId, i) \in OrderType /\ Wellformed(Live(FreshId, i))
  BY <1>1, <1>2, <1>3 DEF IntentOK, OrderType, Wellformed
<1>5. orders' = orders \union {Live(FreshId, i)}
  BY DEF Lands
<1> QED
  BY <1>3, <1>4, <1>5 DEF Inv, ExchangeOK, ExchangeTypeOK

(* The three reads keep what the loop believes possible.                   *)
LEMMA ReadsKeep ==
    ASSUME Inv, StartTick \/ ReadWallets \/ ReadPositions \/ ReadOrders \/ ReadFails
    PROVE  Inv'
<1>1. /\ spot \in Nat /\ margin \in Int /\ margin <= 0 /\ orders \subseteq OrderType
      /\ \A o \in orders : Wellformed(o)
      /\ SnapOK /\ PlanOK /\ LoopOK /\ MaxUses \in Nat /\ MaxUses > 0
  BY InvFacts, BotAssumption DEF Inv, ExchangeOK
<1>2. CASE StartTick
  <2>1. /\ UNCHANGED <<spot, margin, orders, snap, uses, plan, recent, tracker, halted, stops>>
        /\ pc = "idle" /\ pc' \in Stages /\ (pc' = "decide" => uses > 0)
    BY <1>1, <1>2 DEF StartTick, exchangeVars, Stages, LoopOK
  <2>2. plan.intent = {}
    BY <1>1, <2>1 DEF PlanOK
  <2>3. SnapOK' /\ PlanOK' /\ LoopOK'
    BY <1>1, <2>1, <2>2 DEF SnapOK, PlanOK, LoopOK
  <2> QED
    BY <2>1, <2>3 DEF Inv, ExchangeOK, ExchangeTypeOK
<1>3. ASSUME UNCHANGED <<spot, margin, orders, plan, recent, tracker, halted, stops>>,
             SnapOK', pc # "execute", pc' \in Stages, uses' \in 0 .. MaxUses,
             pc' = "decide" => uses' > 0
      PROVE  Inv'
  <2>1. plan.intent = {}
    BY <1>1, <1>3 DEF PlanOK
  <2>2. PlanOK' /\ LoopOK'
    BY <1>1, <1>3, <2>1 DEF PlanOK, LoopOK
  <2> QED
    BY <1>3, <2>2 DEF Inv, ExchangeOK, ExchangeTypeOK
<1>4. /\ snap \in [spot : Nat, margin : Int, orders : SUBSET OrderType]
      /\ snap.margin <= 0 /\ \A o \in snap.orders : Wellformed(o)
      /\ uses \in 0 .. MaxUses
  BY <1>1 DEF SnapOK, LoopOK
<1>5. CASE ReadWallets
  <2>1. /\ snap' = [snap EXCEPT !.spot = spot] /\ pc = "wallets" /\ pc' = "positions"
        /\ UNCHANGED <<spot, margin, orders, uses, plan, recent, tracker, halted, stops>>
    BY <1>5 DEF ReadWallets, exchangeVars
  <2>2. SnapOK'
    BY <1>1, <1>4, <2>1 DEF SnapOK
  <2> QED
    BY <1>3, <1>4, <2>1, <2>2 DEF Stages
<1>6. CASE ReadPositions
  <2>1. /\ snap' = [snap EXCEPT !.margin = margin] /\ pc = "positions" /\ pc' = "orders"
        /\ UNCHANGED <<spot, margin, orders, uses, plan, recent, tracker, halted, stops>>
    BY <1>6 DEF ReadPositions, exchangeVars
  <2>2. SnapOK'
    BY <1>1, <1>4, <2>1 DEF SnapOK
  <2> QED
    BY <1>3, <1>4, <2>1, <2>2 DEF Stages
<1>7. CASE ReadOrders
  <2>1. /\ snap' = [snap EXCEPT !.orders = orders] /\ pc = "orders" /\ pc' = "decide"
        /\ uses' = MaxUses
        /\ UNCHANGED <<spot, margin, orders, plan, recent, tracker, halted, stops>>
    BY <1>7 DEF ReadOrders, exchangeVars
  <2>2. SnapOK'
    BY <1>1, <1>4, <2>1 DEF SnapOK
  <2> QED
    BY <1>1, <1>3, <2>1, <2>2 DEF Stages
<1>8. CASE ReadFails
  <2>1. /\ EndTick(0, FALSE) /\ UNCHANGED <<tracker, halted, stops>>
        /\ UNCHANGED <<spot, margin, orders>>
    BY <1>8 DEF ReadFails, exchangeVars
  <2>2. 0 \in 0 .. MaxUses
    BY <1>1
  <2>3. SnapOK' /\ PlanOK' /\ LoopOK'
    BY <2>1, <2>2, EndTickFacts
  <2> QED
    BY <1>1, <2>1, <2>3 DEF Inv, ExchangeOK, ExchangeTypeOK
<1> QED
  BY <1>2, <1>5, <1>6, <1>7, <1>8

(* A decision, with a valid book or without.                               *)
LEMMA DecideKeeps ==
    ASSUME Inv, Decide \/ DecideBadBook
    PROVE  Inv'
<1>1. /\ pc' = "execute" /\ uses' = uses - 1 /\ pc = "decide" /\ halted' \in BOOLEAN
      /\ UNCHANGED <<spot, margin, orders, snap, recent, stops>>
  BY DEF Decide, DecideBadBook, Latch, exchangeVars, Inv, LoopOK
<1>2. /\ tracker \in TrackerType /\ (tracker.qty # 0 => tracker.stop > 0)
      /\ snap.spot \in Nat /\ snap.margin \in Int
  BY InvFacts DEF Inv, LoopOK
<1>3. /\ ExchangeOK' /\ SnapOK' /\ pc' \in Stages /\ pc' # "decide" /\ uses' \in 0 .. MaxUses
      /\ recent' \in BOOLEAN /\ stops' \in 0 .. MaxStops
  <2>1. /\ uses \in 0 .. MaxUses /\ uses > 0 /\ MaxUses \in Nat
        /\ recent \in BOOLEAN /\ stops \in 0 .. MaxStops
    BY <1>1, BotAssumption DEF Inv, LoopOK
  <2>2. uses - 1 \in 0 .. MaxUses
    BY <2>1
  <2>3. ExchangeOK' /\ SnapOK'
    BY <1>1 DEF Inv, ExchangeOK, ExchangeTypeOK, SnapOK
  <2> QED
    BY <1>1, <2>1, <2>2, <2>3 DEF Stages
<1>4. ASSUME tracker' \in TrackerType, tracker'.qty # 0 => tracker'.stop > 0, PlanOK'
      PROVE  Inv'
  BY <1>1, <1>3, <1>4 DEF Inv, LoopOK
<1>5. CASE Decide
  <2>1. PICK target \in Targets, blocked \in BOOLEAN, level \in Levels, cap \in Caps,
             hit \in BOOLEAN, aged \in SUBSET Ids(WithGid(snap.orders, "work")) :
          LET t == Observe(tracker, snap, level)
              exit == Simultaneous(snap) \/ (t.qty # 0 /\ hit)
          IN  /\ tracker' = t
              /\ plan' = TickBranch(t, target, exit, blocked, cap, aged, TRUE)
    BY <1>5 DEF Decide
  <2>2. target \in Int /\ level \in Nat /\ level > 0 /\ cap \in Nat
    BY BotAssumption
  <2>3. tracker' \in TrackerType /\ (tracker'.qty # 0 => tracker'.stop > 0)
    BY <1>2, <2>1, <2>2, ObserveFacts
  <2> DEFINE exit == Simultaneous(snap) \/ (tracker'.qty # 0 /\ hit)
  <2>4. Simultaneous(snap) /\ TRUE => exit
    OBVIOUS
  <2>5. plan' = TickBranch(tracker', target, exit, blocked, cap, aged, TRUE)
    BY <2>1
  <2> HIDE DEF exit
  <2>6. PlanOK'
    BY <1>1, <2>2, <2>3, <2>4, <2>5, DecisionFacts
  <2> QED
    BY <1>4, <2>3, <2>6
<1>6. CASE DecideBadBook
  <2>1. /\ plan' = TickBranch(tracker, 0, FALSE, TRUE, 0, {}, FALSE) /\ tracker' = tracker
    BY <1>6 DEF DecideBadBook
  <2>2. /\ 0 \in Int /\ 0 \in Nat /\ (Simultaneous(snap) /\ FALSE => FALSE)
    OBVIOUS
  <2>3. PlanOK'
    BY <1>1, <1>2, <2>1, <2>2, DecisionFacts
  <2> QED
    BY <1>2, <1>4, <2>1, <2>3
<1> QED
  BY <1>5, <1>6

(* Requests, answered or not.                                              *)
LEMMA RequestsKeep ==
    ASSUME Inv, CancelSucceeds \/ CancelFails \/ NothingToDo \/ SubmitSucceeds \/ SubmitFails
                \/ SubmitTooSoon
    PROVE  Inv'
<1>1. 0 \in 0 .. MaxUses /\ uses \in 0 .. MaxUses /\ ExchangeOK
  BY BotAssumption DEF Inv, LoopOK
<1>2. ASSUME NEW used \in 0 .. MaxUses, NEW submitted \in BOOLEAN, EndTick(used, submitted),
             ExchangeOK', UNCHANGED <<tracker, halted, stops>>
      PROVE  Inv'
  BY <1>2, EndTickFacts DEF Inv
<1>3. CASE CancelSucceeds
  <2>1. PICK o \in orders :
          /\ Cancelling(o.id)
          /\ orders' = orders \ {o}
          /\ IF plan.cancel = {o.id} THEN EndTick(0, FALSE)
             ELSE /\ plan' = [plan EXCEPT !.cancel = @ \ {o.id}]
                  /\ UNCHANGED <<pc, snap, uses, recent>>
    BY <1>3 DEF CancelSucceeds
  <2>2. UNCHANGED <<spot, margin, tracker, halted, stops>>
    BY <1>3 DEF CancelSucceeds
  <2>3. ExchangeOK'
    BY <1>1, <2>1, <2>2, RemovalKeeps
  <2>4. CASE EndTick(0, FALSE)
    BY <1>1, <1>2, <2>2, <2>3, <2>4
  <2>5. CASE /\ plan' = [plan EXCEPT !.cancel = @ \ {o.id}]
             /\ UNCHANGED <<pc, snap, uses, recent>>
    <3>1. /\ plan' \in [cancel : SUBSET OrderIds, intent : SUBSET IntentType]
          /\ plan'.intent = plan.intent
      BY <2>5 DEF Inv, PlanOK
    <3>2. PlanOK'
      BY <2>2, <2>5, <3>1 DEF Inv, PlanOK
    <3>3. SnapOK' /\ LoopOK'
      BY <2>2, <2>5 DEF Inv, SnapOK, LoopOK
    <3> QED
      BY <2>3, <3>2, <3>3 DEF Inv
  <2> QED
    BY <2>1, <2>4, <2>5
<1>4. CASE CancelFails
  <2>1. /\ EndTick(uses, FALSE) /\ UNCHANGED <<spot, margin, tracker, halted, stops>>
        /\ orders' \subseteq orders
    BY <1>4 DEF CancelFails
  <2> QED
    BY <1>1, <1>2, <2>1, RemovalKeeps
<1>5. CASE NothingToDo \/ SubmitTooSoon
  <2>1. /\ EndTick(uses, FALSE)
        /\ UNCHANGED <<spot, margin, orders, tracker, halted, stops>>
    BY <1>5 DEF NothingToDo, SubmitTooSoon, exchangeVars
  <2> QED
    BY <1>1, <1>2, <2>1, RemovalKeeps
<1>6. CASE SubmitSucceeds
  <2>1. /\ EndTick(0, TRUE) /\ UNCHANGED <<spot, margin, tracker, halted, stops>>
        /\ \E i \in plan.intent : Lands(i)
    BY <1>6 DEF SubmitSucceeds
  <2> QED
    BY <1>1, <1>2, <2>1, LandingKeeps
<1>7. CASE SubmitFails
  <2>1. /\ EndTick(uses, FALSE) /\ UNCHANGED <<spot, margin, tracker, halted, stops>>
        /\ orders' = orders \/ \E i \in plan.intent : Lands(i)
    BY <1>7 DEF SubmitFails
  <2> QED
    BY <1>1, <1>2, <2>1, LandingKeeps, RemovalKeeps
<1> QED
  BY <1>3, <1>4, <1>5, <1>6, <1>7

(* The exchange's own moves, crashes, shutdowns and restarts.              *)
LEMMA EventsKeep ==
    ASSUME Inv, FillWorking \/ StopTriggers \/ DropPostOnly \/ Crash \/ Shutdown \/ Restart
    PROVE  Inv'
<1>1. ASSUME ExchangeOK', UNCHANGED botVars PROVE Inv'
  BY <1>1 DEF botVars, Inv, SnapOK, PlanOK, LoopOK
<1>2. CASE FillWorking \/ StopTriggers
  <2>1. /\ FillIn("work") \/ FillIn("stop")
        /\ UNCHANGED botVars
    BY <1>2 DEF FillWorking, StopTriggers
  <2>2. ExchangeOK'
    BY <2>1, FillKeepsExchange DEF Inv
  <2> QED
    BY <1>1, <2>1, <2>2
<1>3. CASE DropPostOnly
  <2>1. orders' \subseteq orders /\ UNCHANGED <<spot, margin>> /\ UNCHANGED botVars
    BY <1>3 DEF DropPostOnly
  <2> QED
    BY <1>1, <2>1, RemovalKeeps DEF Inv
<1>4. CASE Crash \/ Shutdown
  <2>1. /\ Down /\ orders' \subseteq orders /\ stops < MaxStops
    BY <1>4 DEF Crash, Shutdown
  <2>2. /\ pc' = "down" /\ plan' = Nothing /\ uses' = 0 /\ snap' = NoAccount /\ recent' = FALSE
        /\ stops' = stops + 1 /\ UNCHANGED <<spot, margin, tracker, halted>>
    BY <2>1 DEF Down
  <2>3. ExchangeOK'
    BY <2>1, <2>2, RemovalKeeps DEF Inv
  <2>4. SnapOK' /\ PlanOK'
    BY <2>2, NoAccountFacts DEF SnapOK, PlanOK
  <2>5. LoopOK'
    <3>1. MaxUses \in Nat /\ MaxStops \in Nat
      BY BotAssumption
    <3>2. stops + 1 \in 0 .. MaxStops /\ 0 \in 0 .. MaxUses
      BY <2>1, <3>1 DEF Inv, LoopOK
    <3> QED
      BY <2>2, <3>2 DEF Inv, LoopOK, Stages
  <2> QED
    BY <2>3, <2>4, <2>5 DEF Inv
<1>5. CASE Restart
  <2>1. /\ pc = "down" /\ pc' = "idle"
        /\ UNCHANGED <<spot, margin, orders, snap, uses, plan, recent, tracker, halted, stops>>
    BY <1>5 DEF Restart, exchangeVars
  <2>2. plan.intent = {}
    BY <2>1 DEF Inv, PlanOK
  <2>3. SnapOK' /\ PlanOK' /\ LoopOK'
    BY <2>1, <2>2 DEF Inv, SnapOK, PlanOK, LoopOK, Stages
  <2> QED
    BY <2>1, <2>3 DEF Inv, ExchangeOK, ExchangeTypeOK
<1> QED
  BY <1>2, <1>3, <1>4, <1>5

(* The start: an empty account, nothing known of it.                       *)
LEMMA InvInit == Init => Inv
<1> SUFFICES ASSUME Init PROVE Inv
  OBVIOUS
<1>1. ExchangeOK
  BY DEF Init, ExchangeOK, ExchangeTypeOK
<1>2. SnapOK /\ PlanOK
  BY NoAccountFacts DEF Init, SnapOK, PlanOK
<1>3. LoopOK
  <2>1. MaxUses \in Nat /\ MaxStops \in Nat
    BY BotAssumption
  <2>2. tracker \in TrackerType /\ tracker.qty = 0
    BY DEF Init, NoPosition, TrackerType
  <2>3. pc \in Stages /\ pc # "decide" /\ recent \in BOOLEAN /\ halted \in BOOLEAN
    BY DEF Init, Stages
  <2>4. uses \in 0 .. MaxUses /\ stops \in 0 .. MaxStops
    BY <2>1 DEF Init
  <2> QED
    BY <2>2, <2>3, <2>4 DEF LoopOK
<1> QED
  BY <1>1, <1>2, <1>3 DEF Inv

(* Every step keeps the invariant, whatever the faults.                    *)
LEMMA InvNext == Inv /\ [Next]_vars => Inv'
<1> SUFFICES ASSUME Inv, [Next]_vars PROVE Inv'
  OBVIOUS
<1>1. CASE UNCHANGED vars
  BY <1>1 DEF vars, Inv, ExchangeOK, ExchangeTypeOK, SnapOK, PlanOK, LoopOK
<1> QED
  BY <1>1, ReadsKeep, DecideKeeps, RequestsKeep, EventsKeep DEF Next

(* Inv is inductive under every fault of the model.                        *)
THEOREM Invariance == Spec => []Inv
  BY InvInit, InvNext, PTL DEF Spec

(* The loop's state is what the declarations say, whatever fails.          *)
THEOREM TypeCorrect == Spec => []TypeOK
<1>1. Inv => TypeOK
  BY DEF Inv, ExchangeOK, SnapOK, PlanOK, LoopOK, Stages, TrackerType, TypeOK
<1> QED
  BY <1>1, Invariance, PTL

-----------------------------------------------------------------------------
(* What a step can do at the exchange: take orders away, fill one, or let  *)
(* an intent of the plan land.                                             *)
Landing(i) ==
    /\ pc = "execute"
    /\ Lands(i)
    /\ UNCHANGED <<spot, margin, halted>>
    /\ EndTick(0, TRUE) \/ LostAnswers

(* Nothing else happens at the exchange.                                   *)
LEMMA StepKinds ==
    ASSUME Inv, [Next]_vars
    PROVE  \/ orders' \subseteq orders /\ UNCHANGED <<spot, margin>>
           \/ Quiet /\ UNCHANGED botVars /\ (FillIn("work") \/ FillIn("stop"))
           \/ \E i \in plan.intent : Landing(i)
<1>1. CASE \/ StartTick \/ ReadWallets \/ ReadPositions \/ ReadOrders \/ ReadFails
           \/ Decide \/ DecideBadBook \/ NothingToDo \/ SubmitTooSoon \/ Restart
  BY <1>1 DEF StartTick, ReadWallets, ReadPositions, ReadOrders, ReadFails, Decide,
              DecideBadBook, NothingToDo, SubmitTooSoon, Restart, exchangeVars
<1>2. CASE CancelSucceeds \/ CancelFails
  BY <1>2 DEF CancelSucceeds, CancelFails
<1>3. CASE DropPostOnly \/ Crash \/ Shutdown
  BY <1>3 DEF DropPostOnly, Crash, Shutdown, Down
<1>4. CASE FillWorking \/ StopTriggers
  BY <1>4 DEF FillWorking, StopTriggers
<1>5. CASE SubmitSucceeds
  <2>1. /\ pc = "execute" /\ EndTick(0, TRUE) /\ UNCHANGED <<spot, margin, halted>>
        /\ \E i \in plan.intent : Lands(i)
    BY <1>5 DEF SubmitSucceeds, Submitting
  <2> QED
    BY <2>1 DEF Landing
<1>6. CASE SubmitFails
  <2>1. /\ pc = "execute" /\ UNCHANGED <<spot, margin, halted>>
        /\ orders' = orders \/ (LostAnswers /\ \E i \in plan.intent : Lands(i))
    BY <1>6 DEF SubmitFails, Submitting
  <2> QED
    BY <2>1 DEF Landing
<1>7. CASE UNCHANGED vars
  BY <1>7 DEF vars
<1> QED
  BY <1>1, <1>2, <1>3, <1>4, <1>5, <1>6, <1>7 DEF Next

(* A new identifier is that of an intent that lands.                       *)
LEMMA NewOrders ==
    ASSUME Inv, [Next]_vars, NEW o \in Added
    PROVE  \E i \in plan.intent : Landing(i) /\ o = Live(FreshId, i)
<1>1. o \in orders' /\ o.id \notin Ids(orders)
  BY DEF Added
<1>2. ~(orders' \subseteq orders)
  BY <1>1 DEF Ids
<1>3. ASSUME NEW g, FillIn(g) PROVE FALSE
  <2>1. ExchangeOK
    BY DEF Inv
  <2>2. PICK p \in orders : SameButSmaller(o, p)
    BY <1>1, <1>3, <2>1, FilledOrders
  <2> QED
    BY <1>1, <2>2 DEF SameButSmaller, Ids
<1>4. PICK i \in plan.intent : Landing(i)
  BY <1>2, <1>3, StepKinds
<1>5. orders' = orders \union {Live(FreshId, i)}
  BY <1>4 DEF Landing, Lands
<1> QED
  BY <1>1, <1>4, <1>5 DEF Ids

(* app.go: once a halt has latched nothing that opens is sent, by any      *)
(* tick, whatever was lost, torn or forgotten in between.                  *)
THEOREM EntriesStopOnceHalted == Spec => NoEntryOnceHalted
<1>1. ASSUME Inv, [Next]_vars, NEW o \in Added, Opens(o.venue, o.rem) PROVE ~halted
  <2>1. PICK i \in plan.intent : o = Live(FreshId, i)
    BY <1>1, NewOrders
  <2>2. o.venue = i.venue /\ o.rem = i.amt
    BY <2>1 DEF Live
  <2> QED
    BY <1>1, <2>2 DEF Inv, PlanOK
<1>2. Inv /\ [Next]_vars => [\A o \in Added : Opens(o.venue, o.rem) => ~halted]_vars
  BY <1>1
<1> QED
  BY <1>2, Invariance, PTL DEF Spec, NoEntryOnceHalted

-----------------------------------------------------------------------------
(* With consistent reads and honest errors.  A snapshot in use may be      *)
(* older than the account, but only in a way that is safe: every live      *)
(* order is one of the snapshot, in part at most, and when more is held    *)
(* than the snapshot shows, the snapshot shows the order that bought it.   *)
Fresh ==
    /\ \A o \in orders : \E p \in snap.orders : SameButSmaller(o, p)
    /\ spot > snap.spot \/ margin < snap.margin => WithGid(snap.orders, "work") # {}

InUse == pc \in {"decide", "execute"} \/ (pc = "idle" /\ uses > 0)

SeenOK ==
    /\ pc \in {"wallets", "positions", "orders", "down"} => uses = 0
    /\ pc \in {"positions", "orders"} => snap.spot = spot
    /\ pc = "orders" => snap.margin = margin
    /\ InUse => Fresh

(* A snapshot that was safe stays so when orders go or fill.               *)
LEMMA FreshKept ==
    ASSUME Inv, Fresh, snap' = snap,
           \/ orders' \subseteq orders /\ UNCHANGED <<spot, margin>>
           \/ FillIn("work") \/ FillIn("stop")
    PROVE  Fresh'
<1>1. /\ ExchangeOK /\ spot \in Nat /\ margin \in Int
      /\ snap.spot \in Nat /\ snap.margin \in Int
  BY InvFacts DEF Inv
<1>2. CASE orders' \subseteq orders /\ UNCHANGED <<spot, margin>>
  BY <1>2 DEF Fresh
<1>3. ASSUME NEW g, FillIn(g) PROVE Fresh'
  <2>1. \A o \in orders' : \E p \in orders : SameButSmaller(o, p)
    BY <1>1, <1>3, FilledOrders
  <2>2. ASSUME NEW o \in orders' PROVE \E p \in snap.orders : SameButSmaller(o, p)
    <3>1. PICK r \in orders : SameButSmaller(o, r)
      BY <2>1
    <3>2. PICK p \in snap.orders : SameButSmaller(r, p)
      BY DEF Fresh
    <3>3. SameButSmaller(o, p)
      BY <3>1, <3>2 DEF SameButSmaller
    <3> QED
      BY <3>3
  <2>3. PICK o \in orders : \E q \in 1 .. Abs(o.rem) : Fill(o, q)
    BY <1>3 DEF FillIn, WithGid
  <2>4. PICK q \in 1 .. Abs(o.rem) : Fill(o, q)
    BY <2>3
  <2>5. /\ spot' \in Nat /\ margin' \in Int /\ D!Moves(Summary(o), q)
        /\ o \in OrderType /\ Wellformed(o) /\ q \in Nat
    BY <1>1, <2>4, FillFacts DEF ExchangeOK, ExchangeTypeOK, OrderType, Abs
  <2>6. spot' > spot \/ margin' < margin => Opens(o.venue, o.rem)
    BY <1>1, <2>5 DEF D!Moves, Summary, Opens, OrderType
  <2>7. spot' > spot \/ margin' < margin => WithGid(snap.orders, "work") # {}
    <3>1. PICK p \in snap.orders : SameButSmaller(o, p)
      BY DEF Fresh
    <3>2. Opens(o.venue, o.rem) => p.gid = "work"
      BY <3>1, <2>5 DEF SameButSmaller, Wellformed, OrderType
    <3> QED
      BY <2>6, <3>1, <3>2 DEF WithGid
  <2>8. ~(spot' > spot) /\ ~(margin' < margin) =>
           (spot' > snap.spot => spot > snap.spot) /\ (margin' < snap.margin => margin < snap.margin)
    BY <1>1, <2>5
  <2> QED
    BY <2>2, <2>7, <2>8 DEF Fresh
<1> QED
  BY <1>2, <1>3

(* A tick that ends keeps a snapshot only when it is still safe.           *)
LEMMA EndTickSeen ==
    ASSUME NEW used \in 0 .. MaxUses, NEW submitted, EndTick(used, submitted),
           used > 0 => Fresh, used > 0 => orders' \subseteq orders /\ UNCHANGED <<spot, margin>>,
           Inv
    PROVE  SeenOK'
<1>1. used \in Int
  BY BotAssumption
<1>2. pc' = "idle" /\ uses' = used /\ (used > 0 => snap' = snap)
  BY <1>1 DEF EndTick
<1>3. used > 0 => Fresh'
  BY <1>2, FreshKept
<1> QED
  BY <1>2, <1>3 DEF SeenOK, InUse

(* With the exchange quiet between the reads of one account and no answer  *)
(* lost, every step keeps the snapshot safe.                               *)
LEMMA SeenNext ==
    ASSUME ~TornReads, ~LostAnswers, Inv, SeenOK, [Next]_vars
    PROVE  SeenOK'
<1>1. /\ 0 \in 0 .. MaxUses /\ uses \in 0 .. MaxUses /\ uses \in Int /\ MaxUses > 0
      /\ snap \in [spot : Nat, margin : Int, orders : SUBSET OrderType]
      /\ \A o \in orders : Wellformed(o)
  <2>1. MaxUses \in Nat /\ MaxUses > 0
    BY BotAssumption
  <2> QED
    BY <2>1 DEF Inv, LoopOK, SnapOK, ExchangeOK
<1>2. ASSUME EndTick(0, TRUE) \/ EndTick(0, FALSE) PROVE SeenOK'
  <2>1. PICK s \in BOOLEAN : EndTick(0, s)
    BY <1>2
  <2> QED
    BY <1>1, <2>1, EndTickSeen
<1>3. ASSUME EndTick(uses, FALSE), UNCHANGED <<spot, margin, orders>>, pc = "execute"
      PROVE  SeenOK'
  <2>1. Fresh
    BY <1>3 DEF SeenOK, InUse
  <2> QED
    BY <1>1, <1>3, <2>1, EndTickSeen
<1>4. CASE StartTick
  <2>1. /\ UNCHANGED <<spot, margin, orders, snap, uses>>
        /\ pc = "idle" /\ pc' = IF uses = 0 THEN "wallets" ELSE "decide"
    BY <1>4 DEF StartTick, exchangeVars
  <2> QED
    BY <1>1, <2>1 DEF SeenOK, InUse, Fresh
<1>5. CASE ReadWallets
  <2>1. /\ snap'.spot = spot /\ pc = "wallets" /\ pc' = "positions"
        /\ UNCHANGED <<spot, margin, orders, uses>>
    BY <1>1, <1>5 DEF ReadWallets, exchangeVars
  <2> QED
    BY <2>1 DEF SeenOK, InUse
<1>6. CASE ReadPositions
  <2>1. /\ snap'.margin = margin /\ snap'.spot = snap.spot /\ pc = "positions" /\ pc' = "orders"
        /\ UNCHANGED <<spot, margin, orders, uses>>
    BY <1>1, <1>6 DEF ReadPositions, exchangeVars
  <2> QED
    BY <2>1 DEF SeenOK, InUse
<1>7. CASE ReadOrders
  <2>1. /\ snap'.orders = orders /\ snap'.spot = snap.spot /\ snap'.margin = snap.margin
        /\ pc = "orders" /\ pc' = "decide" /\ UNCHANGED <<spot, margin, orders>>
    BY <1>1, <1>7 DEF ReadOrders, exchangeVars
  <2>2. snap.spot = spot /\ snap.margin = margin /\ spot \in Nat /\ margin \in Int
    BY <2>1, InvFacts DEF SeenOK
  <2>3. \A o \in orders : SameButSmaller(o, o)
    BY <1>1 DEF SameButSmaller, Wellformed
  <2>4. Fresh'
    BY <2>1, <2>2, <2>3 DEF Fresh
  <2> QED
    BY <2>1, <2>4 DEF SeenOK
<1>8. CASE ReadFails
  BY <1>2, <1>8 DEF ReadFails
<1>9. CASE Decide \/ DecideBadBook
  <2>1. pc = "decide" /\ pc' = "execute" /\ UNCHANGED <<spot, margin, orders, snap>>
    BY <1>9 DEF Decide, DecideBadBook, exchangeVars
  <2>2. Fresh'
    BY <2>1 DEF SeenOK, InUse, Fresh
  <2> QED
    BY <2>1, <2>2 DEF SeenOK
<1>10. CASE CancelSucceeds
  <2>1. CASE EndTick(0, FALSE)
    BY <1>2, <2>1
  <2>2. CASE ~EndTick(0, FALSE)
    <3>1. /\ UNCHANGED <<pc, snap, uses, spot, margin>> /\ orders' \subseteq orders /\ pc = "execute"
      BY <1>10, <2>2 DEF CancelSucceeds, Cancelling
    <3>2. Fresh'
      BY <3>1, FreshKept DEF SeenOK, InUse
    <3> QED
      BY <3>1, <3>2 DEF SeenOK
  <2> QED
    BY <2>1, <2>2
<1>11. CASE CancelFails
  <2>1. EndTick(uses, FALSE) /\ UNCHANGED <<spot, margin, orders>> /\ pc = "execute"
    BY <1>11 DEF CancelFails, Cancelling
  <2> QED
    BY <1>3, <2>1
<1>12. CASE NothingToDo \/ SubmitTooSoon \/ SubmitFails
  <2>1. EndTick(uses, FALSE) /\ UNCHANGED <<spot, margin, orders>> /\ pc = "execute"
    BY <1>12 DEF NothingToDo, SubmitTooSoon, SubmitFails, Submitting, exchangeVars
  <2> QED
    BY <1>3, <2>1
<1>13. CASE SubmitSucceeds
  BY <1>2, <1>13 DEF SubmitSucceeds
<1>14. CASE FillWorking \/ StopTriggers \/ DropPostOnly
  <2>1. /\ pc \notin {"positions", "orders"} /\ UNCHANGED <<pc, snap, uses>>
        /\ \/ orders' \subseteq orders /\ UNCHANGED <<spot, margin>>
           \/ FillIn("work") \/ FillIn("stop")
    BY <1>14 DEF FillWorking, StopTriggers, DropPostOnly, Quiet, botVars
  <2>2. Fresh => Fresh'
    BY <2>1, FreshKept
  <2> QED
    BY <2>1, <2>2 DEF SeenOK, InUse
<1>15. CASE Crash \/ Shutdown
  <2>1. pc' = "down" /\ uses' = 0
    BY <1>15 DEF Crash, Shutdown, Down
  <2> QED
    BY <2>1 DEF SeenOK, InUse
<1>16. CASE Restart
  <2>1. pc = "down" /\ pc' = "idle" /\ uses' = uses
    BY <1>16 DEF Restart
  <2> QED
    BY <2>1 DEF SeenOK, InUse
<1>17. CASE UNCHANGED vars
  BY <1>17 DEF vars, SeenOK, InUse, Fresh
<1> QED
  BY <1>4, <1>5, <1>6, <1>7, <1>8, <1>9, <1>10, <1>11, <1>12, <1>13, <1>14, <1>15, <1>16, <1>17
     DEF Next

(* What lands while the snapshot is safe fits the account as it is, not    *)
(* only as it was seen.                                                    *)
LEMMA LandingFits ==
    ASSUME Inv, Fresh, NEW i \in plan.intent, Landing(i)
    PROVE  /\ IntentOK(i)
           /\ orders' = orders \union {Live(FreshId, i)}
           /\ WithGid(orders, i.gid) = {}
           /\ i.venue = "spot" /\ i.amt > 0 => margin >= -Tol /\ spot - margin + i.amt <= Cap
           /\ i.venue = "margin" /\ i.amt < 0 => spot <= Tol /\ spot - margin - i.amt <= Cap
           /\ i.gid = "work" /\ ~Opens(i.venue, i.amt) => WithGid(orders, "stop") = {}
<1>1. /\ IntentOK(i) /\ WithGid(snap.orders, i.gid) = {}
      /\ i.gid = "work" /\ ~Opens(i.venue, i.amt) => WithGid(snap.orders, "stop") = {}
  BY DEF Inv, PlanOK
<1>2. ASSUME NEW g, WithGid(snap.orders, g) = {} PROVE WithGid(orders, g) = {}
  BY <1>2 DEF Fresh, WithGid, SameButSmaller
<1>3. orders' = orders \union {Live(FreshId, i)} /\ ValidIntent(i, snap)
  BY DEF Landing, Lands
<1>4. /\ spot \in Nat /\ margin \in Int /\ snap.spot \in Nat /\ snap.margin \in Int
      /\ snap.margin <= 0 /\ snap.orders \subseteq OrderType
      /\ \A o \in snap.orders : Wellformed(o)
      /\ i.amt \in Int
      /\ Opens(i.venue, i.amt) => i.gid = "work"
  BY <1>1, InvFacts DEF Inv, SnapOK, IntentOK
<1>5. /\ i.venue = "spot" /\ i.amt > 0 =>
            snap.margin >= -Tol /\ snap.spot - snap.margin + i.amt <= Cap
      /\ i.venue = "margin" /\ i.amt < 0 =>
            snap.spot <= Tol /\ snap.spot - snap.margin - i.amt <= Cap
  BY <1>1, <1>3, <1>4, AcceptedOpening
<1>6. Opens(i.venue, i.amt) => spot <= snap.spot /\ margin >= snap.margin
  BY <1>1, <1>4 DEF Fresh
<1>7. /\ Tol \in Nat /\ Cap \in Nat
  BY PlannerAssumption, EngineAssumption
<1>8. ASSUME i.venue = "spot", i.amt > 0
      PROVE  margin >= -Tol /\ spot - margin + i.amt <= Cap
  <2>1. spot <= snap.spot /\ margin >= snap.margin
    BY <1>6, <1>8 DEF Opens
  <2> QED
    BY <1>4, <1>5, <1>7, <1>8, <2>1
<1>9. ASSUME i.venue = "margin", i.amt < 0
      PROVE  spot <= Tol /\ spot - margin - i.amt <= Cap
  <2>1. spot <= snap.spot /\ margin >= snap.margin
    BY <1>6, <1>9 DEF Opens
  <2> QED
    BY <1>4, <1>5, <1>7, <1>9, <2>1
<1> QED
  BY <1>1, <1>2, <1>3, <1>8, <1>9

(* Every step is one of the desk's, or leaves it alone.                    *)
LEMMA DeskStep ==
    ASSUME Inv, SeenOK, OneOrderPerGroup, ~LostAnswers, [Next]_vars
    PROVE  [D!Next]_(D!vars) /\ OneOrderPerGroup'
<1>1. ExchangeOK /\ OnePerGroup(orders)
  BY DEF Inv, OneOrderPerGroup, OnePerGroup
<1>2. CASE orders' \subseteq orders /\ UNCHANGED <<spot, margin>>
  <2>1. D!Withdraw
    BY <1>1, <1>2, RemovalWithdraws
  <2> QED
    BY <1>2, <2>1 DEF D!Next, OneOrderPerGroup
<1>3. ASSUME NEW g \in {"work", "stop"}, FillIn(g)
      PROVE  [D!Next]_(D!vars) /\ OneOrderPerGroup'
  <2>1. D!Filled(g)
    BY <1>1, <1>3, FillFillsDesk
  <2>2. OnePerGroup(orders')
    BY <1>1, <1>3, FillKeepsExchange
  <2> QED
    BY <2>1, <2>2 DEF D!Next, OneOrderPerGroup, OnePerGroup
<1>4. ASSUME NEW i \in plan.intent, Landing(i)
      PROVE  [D!Next]_(D!vars) /\ OneOrderPerGroup'
  <2>1. Fresh /\ UNCHANGED <<spot, margin>>
    BY <1>4 DEF SeenOK, InUse, Landing
  <2>2. (D!Work \/ D!Protect) /\ OnePerGroup(orders')
    BY <1>1, <1>4, <2>1, LandingFits, PlacementWorksOrProtects
  <2> QED
    BY <2>2 DEF D!Next, OneOrderPerGroup, OnePerGroup
<1> QED
  BY <1>2, <1>3, <1>4, StepKinds

SafeInv == Inv /\ SeenOK /\ OneOrderPerGroup

(* With consistent reads and honest errors the loop's whole invariant is   *)
(* inductive, and each of its steps is one of the desk.                    *)
LEMMA SafeSteps ==
    ASSUME ~TornReads, ~LostAnswers
    PROVE  /\ Init => SafeInv /\ D!Init
           /\ SafeInv /\ [Next]_vars => SafeInv' /\ [D!Next]_(D!vars)
<1>1. ASSUME Init PROVE SafeInv /\ D!Init
  <2>1. D!Init
    BY <1>1 DEF Init, D!Init, D!Groups, D!None, BookOf, WithGid
  <2>2. SeenOK /\ OneOrderPerGroup
    BY <1>1 DEF Init, SeenOK, InUse, OneOrderPerGroup
  <2> QED
    BY <1>1, <2>1, <2>2, InvInit DEF SafeInv
<1>2. ASSUME SafeInv, [Next]_vars PROVE SafeInv' /\ [D!Next]_(D!vars)
  <2>1. Inv /\ SeenOK /\ OneOrderPerGroup
    BY <1>2 DEF SafeInv
  <2>2. Inv'
    BY <1>2, <2>1, InvNext
  <2>3. SeenOK'
    BY <1>2, <2>1, SeenNext
  <2>4. [D!Next]_(D!vars) /\ OneOrderPerGroup'
    BY <1>2, <2>1, DeskStep
  <2> QED
    BY <2>2, <2>3, <2>4 DEF SafeInv
<1> QED
  BY <1>1, <1>2

(* Reused snapshots, failed requests, crashes, shutdowns and restarts do   *)
(* not take the loop out of what the desk allows.                          *)
THEOREM BotImplementsDesk ==
    ASSUME ~TornReads, ~LostAnswers
    PROVE  Spec => ImplementsDesk
<1>1. /\ Init => SafeInv /\ D!Init
      /\ SafeInv /\ [Next]_vars => SafeInv' /\ [D!Next]_(D!vars)
  BY SafeSteps
<1> QED
  BY <1>1, PTL DEF Spec, ImplementsDesk, D!Spec

(* app.go: the account snapshot is reused until something was sent; still  *)
(* there is one order of a kind at a time.                                 *)
THEOREM OrdersStaySingle ==
    ASSUME ~TornReads, ~LostAnswers
    PROVE  Spec => []OneOrderPerGroup
<1>1. /\ Init => SafeInv
      /\ SafeInv /\ [Next]_vars => SafeInv'
      /\ SafeInv => OneOrderPerGroup
  BY SafeSteps DEF SafeInv
<1> QED
  BY <1>1, PTL DEF Spec

(* README: spot long and margin short are never held together, beyond dust *)
(* and on the exchange itself.                                             *)
THEOREM VenuesStayApart ==
    ASSUME ~TornReads, ~LostAnswers
    PROVE  Spec => []OneVenue
<1>1. D!OneSided => OneVenue
  BY DEF D!OneSided, OneVenue
<1> QED
  BY <1>1, BotImplementsDesk, DeskIsSafe, PTL DEF ImplementsDesk

(* README: gross exposure, pending openings included, stays within its     *)
(* ceiling.                                                                *)
THEOREM CapHolds ==
    ASSUME ~TornReads, ~LostAnswers
    PROVE  Spec => []WithinCap
<1>1. ASSUME SafeInv, D!OneSided, D!Bounded PROVE WithinCap
  <2> DEFINE openings == {o \in orders : Opens(o.venue, o.rem)}
             book == BookOf(orders)
  <2>1. /\ spot \in Nat /\ margin \in Int /\ margin <= 0 /\ orders \subseteq OrderType
        /\ \A o \in orders : Wellformed(o)
        /\ OnePerGroup(orders) /\ account.orders = orders
    BY <1>1, InvFacts DEF SafeInv, Inv, ExchangeOK, OneOrderPerGroup, OnePerGroup, account
  <2>2. Abs(spot) = spot /\ Abs(margin) = -margin
    BY <2>1 DEF Abs
  <2>3. /\ D!Pending(book["work"]) \in Nat /\ D!Pending(book["stop"]) \in Nat
    <3>1. ASSUME NEW g \in {"work", "stop"} PROVE D!Pending(book[g]) \in Nat
      <4>1. CASE WithGid(orders, g) = {}
        BY <2>1, <4>1, BookFacts DEF D!Pending, D!None, D!Opening
      <4>2. CASE WithGid(orders, g) # {}
        <5>1. PICK o \in orders : o.gid = g
          BY <4>2 DEF WithGid
        <5>2. book[g] = Summary(o) /\ Summary(o).rem = o.rem /\ o.rem \in Int
          BY <2>1, <5>1, BookFacts DEF Summary, OrderType
        <5> QED
          BY <5>2 DEF D!Pending
      <4> QED
        BY <4>1, <4>2
    <3> QED
      BY <3>1
  <2>4. PendingOpening(account) <= D!Pending(book["work"])
        /\ PendingOpening(account) \in Nat
    <3>1. CASE openings = {}
      <4>1. openings = {o \in account.orders : Opens(o.venue, o.rem)}
        BY <2>1
      <4>2. PendingOpening(account) = 0
        BY <3>1, <4>1, PendingFacts
      <4> QED
        BY <2>3, <4>2
    <3>2. CASE openings # {}
      <4>1. PICK o \in orders : Opens(o.venue, o.rem)
        BY <3>2
      <4>2. o.gid = "work" /\ o.rem \in Int
        BY <2>1, <4>1 DEF Wellformed, OrderType
      <4>3. openings = {o}
        BY <2>1, <4>1, <4>2 DEF Wellformed, OrderType, OnePerGroup
      <4>4. PendingOpening(account) = Abs(o.rem)
        BY <2>1, <4>2, <4>3, PendingFacts
      <4>5. book["work"] = Summary(o)
        BY <2>1, <4>2, BookFacts
      <4>6. D!Pending(book["work"]) = Abs(o.rem)
        <5>1. Summary(o).venue = o.venue /\ Summary(o).rem = o.rem
          BY DEF Summary
        <5>2. D!Opening(Summary(o))
          BY <4>1, <5>1 DEF D!Opening, Opens
        <5>3. D!Pending(Summary(o)) = Abs(o.rem)
          BY <4>2, <5>1, <5>2 DEF D!Pending, Abs
        <5> QED
          BY <4>5, <5>3
      <4> QED
        BY <4>2, <4>4, <4>6 DEF Abs
    <3> QED
      BY <3>1, <3>2
  <2>5. spot - margin + D!Pending(book["work"]) + D!Pending(book["stop"]) <= Cap
    BY <1>1 DEF D!Bounded
  <2> HIDE DEF book
  <2>6. spot + -margin + PendingOpening(account) <= Cap
    BY <2>1, <2>3, <2>4, <2>5, EngineAssumption
  <2> QED
    BY <2>2, <2>6 DEF WithinCap
<1>2. /\ Init => SafeInv
      /\ SafeInv /\ [Next]_vars => SafeInv'
  BY SafeSteps
<1> QED
  BY <1>1, <1>2, BotImplementsDesk, DeskIsSafe, PTL DEF Spec, ImplementsDesk

(* planner.go: "Never reduce/flatten/reverse while an old protective stop  *)
(* can also execute", for the stop at the exchange and not for its image.  *)
THEOREM ReductionsMeetNoStop ==
    ASSUME ~TornReads, ~LostAnswers
    PROVE  Spec => NoReductionOverStop
<1>1. ASSUME SafeInv, [Next]_vars, NEW o \in Added, o.gid = "work", ~Opens(o.venue, o.rem)
      PROVE  WithGid(orders, "stop") = {}
  <2>1. Inv /\ SeenOK
    BY <1>1 DEF SafeInv
  <2>2. PICK i \in plan.intent : Landing(i) /\ o = Live(FreshId, i)
    BY <1>1, <2>1, NewOrders
  <2>3. o.gid = i.gid /\ o.venue = i.venue /\ o.rem = i.amt
    BY <2>2 DEF Live
  <2>4. Fresh
    BY <2>1, <2>2 DEF SeenOK, InUse, Landing
  <2> QED
    BY <1>1, <2>1, <2>2, <2>3, <2>4, LandingFits
<1>2. SafeInv /\ [Next]_vars =>
        [\A o \in Added : o.gid = "work" /\ ~Opens(o.venue, o.rem)
            => WithGid(orders, "stop") = {}]_vars
  BY <1>1
<1>3. /\ Init => SafeInv
      /\ SafeInv /\ [Next]_vars => SafeInv'
  BY SafeSteps
<1> QED
  BY <1>2, <1>3, PTL DEF Spec, NoReductionOverStop
=============================================================================
